---------------------------- MODULE Spec2Model ----------------------------
(***************************************************************************)
(* A model of static/app.js: the dashboard of three D3 charts.             *)
(*                                                                         *)
(* The page is single-threaded and event-driven.  One action of the model  *)
(* is one task of the event loop together with the promise reactions       *)
(* (microtasks) that run before the next task: a fetch that settles, the   *)
(* end of the reading of the response bodies, a click on a button.         *)
(*                                                                         *)
(* Spec is the whole dashboard: initializeDashboard, the loads of          *)
(* integrateVisualizations with their fetches, refresh() and the Sort      *)
(* button.  The other specifications start after a successful load:        *)
(*   BarSpec      the bar chart alone, built from every artist array;      *)
(*   ViewSpec     the listeners that change the charts in place;           *)
(*   MetricSpec   the comparison chart, built from every platform array;   *)
(*   ZoomSpec     wheel, drag and Reset Zoom on the scatter plot, and      *)
(*   ZoomFairSpec the same with a transition timer that keeps running;     *)
(*   ScatterSpec  the scatter plot, built from every track array;          *)
(*   HoverSpec    the tooltips of the scatter plot and comparison chart;   *)
(*   FormatSpec   the three copies of customFormat;                        *)
(*   BuildSpec    the initial load, for every array of raw track rows;     *)
(*   PointerSpec  the pointer entering and leaving the marks;              *)
(*   MoveSpec     clicks and hovers while the marks are moving.            *)
(*                                                                         *)
(* A transition of a mark lasts a number of ticks of 250 ms; the           *)
(* attributes of the mark hold the values it is on the way to, and the     *)
(* values it started from stand for every value in between.                *)
(*                                                                         *)
(* JavaScript numbers are integers here; NaN and undefined are the two     *)
(* negative values NaN and Undefined, which no record of the data model    *)
(* (streams, reach, total, average, median >= 0) uses.                     *)
(***************************************************************************)
EXTENDS Integers, Sequences, FiniteSets, TLC

(***************************************************************************)
(* Bounds of the model                                                     *)
(***************************************************************************)
\* refresh() calls in one behaviour
MaxRefresh == 1
\* clicks on one Sort button that the history counter follows
MaxClicks == 3
\* length of an artist array in the bar-chart specification
MaxArtists == 3
\* the streams of an artist are in 1..MaxStreams
MaxStreams == 2
\* steps of a behaviour of the specification of the three charts together
MaxSteps == 3
\* clicks on one Update Data button
MaxUpdates == 1
\* the translation of the zoom, in units of 245 px, is within -MaxPanX..MaxPanX
\* and -MaxPanY..MaxPanY
MaxPanX == 4
MaxPanY == 1
\* the metrics of a platform are in 0..MaxMetric
MaxMetric == 2
\* the numeric fields of a track are in 0..MaxTrackValue thousands
MaxTrackValue == 2
\* the tick values are the first MaxTick multiples of 50 of three units
MaxTick == 40
\* the events and ticks of a run in which the marks move
MaxMoveSteps == 4

(***************************************************************************)
(* JavaScript values                                                       *)
(***************************************************************************)
NaN == -1
Undefined == -2

\* A raw numeric field of a track row: a number, a numeric string, or
\* something that is no number (a word, a missing field).
Num(v) == [t |-> "num", v |-> v]
Str(v) == [t |-> "str", v |-> v]
Bad == [t |-> "bad", v |-> 0]

\* parseFloat: the number of a number or of a numeric string, NaN otherwise
ParseFloat(raw) == IF raw.t = "bad" THEN NaN ELSE raw.v

Range(s) == {s[i] : i \in DOMAIN s}

(***************************************************************************)
(* The three endpoints and what they answer                                *)
(***************************************************************************)
Endpoints == {"tracks", "artists", "platforms"}
Cards == {"scatterPlot", "topArtists", "platformComparison"}

\* A response body.  decodable: response.json() resolves.  shaped: the
\* decoded value has the shape the endpoint documents (tracks: an object
\* with a data array; artists: an array).  rows: the rows of that array, or
\* for the platforms the entries of the decoded object, in key order.
Html == [decodable |-> FALSE, shaped |-> FALSE, rows |-> <<>>]
\* the JSON error object of the server, {"detail": "Not Found"}
ErrorObject ==
  [decodable |-> TRUE, shaped |-> FALSE,
   rows |-> <<[key |-> "detail", kind |-> "string",
               total |-> Undefined, average |-> Undefined, median |-> Undefined]>>]
Json(rows) == [decodable |-> TRUE, shaped |-> TRUE, rows |-> rows]

TrackRowA ==
  [Streams |-> Num(1000), Reach |-> Str(2000), Track |-> "A", Artist |-> "X"]
TrackRowB ==
  [Streams |-> Bad, Reach |-> Num(500), Track |-> "B", Artist |-> "Y"]
TrackArrays == {<<TrackRowA, TrackRowB>>}

ArtistNames == <<"a", "b", "c", "d", "e">>
ArtistRow(i, n) == [Artist |-> ArtistNames[i], SpotifyStreams |-> n]
\* the arrays the artists endpoint answers in the dashboard specification
ArtistArrays == { <<ArtistRow(1, 1), ArtistRow(2, 2), ArtistRow(3, 1)>> }

PlatformEntry(k, t, a, m) ==
  [key |-> k, kind |-> "object", total |-> t, average |-> a, median |-> m]
PlatformObjects ==
  { <<PlatformEntry("Spotify", 100, 10, 5), PlatformEntry("YouTube", 50, 20, 0)>>,
    <<[key |-> "TikTok", kind |-> "null",
       total |-> Undefined, average |-> Undefined, median |-> Undefined]>> }

\* The bodies a response of endpoint e may carry.  A non-OK response carries
\* the error page or the error object of the server; an OK response carries
\* anything.
Bodies(e, status) ==
  IF status = "notok" THEN {Html, ErrorObject}
  ELSE {Html, ErrorObject} \cup
       { Json(r) : r \in CASE e = "tracks" -> TrackArrays
                           [] e = "artists" -> ArtistArrays
                           [] OTHER -> PlatformObjects }

(***************************************************************************)
(* integrateVisualizations: from the three bodies to the three data arrays *)
(***************************************************************************)
\* (mutant) a field that is no number is an error
NormaliseTracksStrict(body) ==
  IF ~body.shaped \/ \E i \in DOMAIN body.rows :
                       body.rows[i].Streams.t = "bad" \/ body.rows[i].Reach.t = "bad"
  THEN [thrown |-> TRUE, data |-> <<>>]
  ELSE [thrown |-> FALSE,
        data |-> [i \in DOMAIN body.rows |->
                    [streams |-> body.rows[i].Streams.v,
                     reach |-> body.rows[i].Reach.v,
                     track |-> body.rows[i].Track,
                     artist |-> body.rows[i].Artist]]]

\* tracksData.data.map(...): a TypeError when the decoded value has no data
\* array; the numeric fields go through parseFloat.
NormaliseTracks(body) ==
  IF ~body.shaped THEN [thrown |-> TRUE, data |-> <<>>]
  ELSE [thrown |-> FALSE,
        data |-> [i \in DOMAIN body.rows |->
                    [streams |-> ParseFloat(body.rows[i].Streams),
                     reach |-> ParseFloat(body.rows[i].Reach),
                     track |-> body.rows[i].Track,
                     artist |-> body.rows[i].Artist]]]

\* topArtistsData.map(...): a TypeError when the decoded value is no array
NormaliseArtists(body) ==
  IF ~body.shaped THEN [thrown |-> TRUE, data |-> <<>>]
  ELSE [thrown |-> FALSE,
        data |-> [i \in DOMAIN body.rows |->
                    [artist |-> body.rows[i].Artist,
                     streams |-> body.rows[i].SpotifyStreams]]]

\* Object.keys(platformsData).map(...): every key of the decoded object gives a
\* record, also the keys of an error object; reading .total of a string
\* gives undefined, reading it of null is a TypeError.
NormalisePlatforms(body) ==
  IF \E i \in DOMAIN body.rows : body.rows[i].kind = "null"
  THEN [thrown |-> TRUE, data |-> <<>>]
  ELSE [thrown |-> FALSE,
        data |-> [i \in DOMAIN body.rows |->
                    [platform |-> body.rows[i].key,
                     total |-> body.rows[i].total,
                     average |-> body.rows[i].average,
                     median |-> body.rows[i].median]]]

\* The try block up to the three create calls: the three json() calls and
\* the three normalisations, each of which may throw.
Normalise(tb, ab, pb) ==
  LET t == NormaliseTracks(tb)
      a == NormaliseArtists(ab)
      p == NormalisePlatforms(pb)
  IN  [thrown |-> \/ ~tb.decodable \/ ~ab.decodable \/ ~pb.decodable
                  \/ t.thrown \/ a.thrown \/ p.thrown,
       scatter |-> t.data, bar |-> a.data, platform |-> p.data]

\* (mutant) Promise.allSettled in the place of Promise.all: fulfilled when
\* the three have settled, rejected or not
PromiseAllSettled(fetch) ==
  IF \A e \in Endpoints : fetch[e] # "pending" THEN "fulfilled" ELSE "pending"

\* (mutant) Promise.any in the place of Promise.all: fulfilled with the first
\* fetch that is fulfilled
PromiseAny(fetch) ==
  IF \E e \in Endpoints : fetch[e] \in {"ok", "notok"} THEN "fulfilled"
  ELSE IF \A e \in Endpoints : fetch[e] = "rejected" THEN "rejected"
  ELSE "pending"

\* Promise.all over the three fetch promises: rejected as soon as one is
\* rejected, fulfilled when all three are fulfilled.
PromiseAll(fetch) ==
  IF \E e \in Endpoints : fetch[e] = "rejected" THEN "rejected"
  ELSE IF \A e \in Endpoints : fetch[e] \in {"ok", "notok"} THEN "fulfilled"
  ELSE "pending"

(***************************************************************************)
(* The bar chart of the artists                                            *)
(***************************************************************************)
Artists(data) == [i \in DOMAIN data |-> data[i].artist]

\* d3.ascending / d3.descending on two numbers
Ascending(a, b) == IF a < b THEN -1 ELSE IF a > b THEN 1 ELSE 0
Descending(a, b) == IF b < a THEN -1 ELSE IF b > a THEN 1 ELSE 0

\* the comparator of sortBars
Compare(asc, a, b) ==
  IF asc THEN Ascending(a.streams, b.streams) ELSE Descending(a.streams, b.streams)

\* (mutant) x is put before the elements it compares equal to
RECURSIVE InsertBeforeEqual(_, _, _)
InsertBeforeEqual(asc, s, x) ==
  IF s = <<>> THEN <<x>>
  ELSE IF Compare(asc, Head(s), x) < 0
       THEN <<Head(s)>> \o InsertBeforeEqual(asc, Tail(s), x)
       ELSE <<x>> \o s

RECURSIVE InsertStable(_, _, _)
\* x put into the sorted sequence s behind every element that does not
\* compare greater than x
InsertStable(asc, s, x) ==
  IF s = <<>> THEN <<x>>
  ELSE IF Compare(asc, Head(s), x) <= 0
       THEN <<Head(s)>> \o InsertStable(asc, Tail(s), x)
       ELSE <<x>> \o s

RECURSIVE SortFrom(_, _, _)
SortFrom(asc, sorted, rest) ==
  IF rest = <<>> THEN sorted
  ELSE SortFrom(asc, InsertStable(asc, sorted, Head(rest)), Tail(rest))

\* Array.prototype.sort with the comparator of sortBars: a stable sort
SortData(asc, data) == SortFrom(asc, <<>>, data)

\* the position of key k in the domain of a band scale (0: not in it); the
\* pixel of the band is a one-to-one function of this position
Band(domain, k) ==
  IF \E i \in DOMAIN domain : domain[i] = k
  THEN CHOOSE i \in DOMAIN domain : domain[i] = k
  ELSE 0

\* The transition of an element.  d3 runs at most one transition of a name
\* on an element, and the handlers name none: a transition that starts
\* interrupts the one that runs.  While a transition runs, the attributes
\* it changes hold in the mark the values they are on the way to, and from
\* holds the values they had when it started, which stand for every value
\* on the way; left is the time left, in ticks of 250 ms.
NoTransition == [kind |-> "none", left |-> 0, from |-> <<>>]

\* the attributes the running transition of mark m changes
Running(m) == IF m.tr.left > 0 THEN DOMAIN m.tr.from ELSE {}

\* the value attribute a of mark m has on the screen
Shown(m, a) == IF a \in Running(m) THEN m.tr.from[a] ELSE m[a]

\* the transition of mark m is interrupted: its attributes stay on the way
Interrupted(m) ==
  [a \in DOMAIN m |-> IF a = "tr" THEN NoTransition ELSE Shown(m, a)]

\* The opacity mark m is drawn with: the style when the mark has one (a
\* style wins over the attribute), else the attribute, else 1.
Opacity(m) ==
  IF "styleOpacity" \in DOMAIN m THEN m.styleOpacity
  ELSE IF Shown(m, "opacity") = Undefined THEN 100 ELSE Shown(m, "opacity")

\* selection.transition().duration(n ticks).attr(...) on mark m: the
\* attributes of targets are on the way to their values
Transition(m, kind, n, targets) ==
  [a \in DOMAIN m |->
     IF a = "tr"
     THEN [kind |-> kind, left |-> n,
           from |-> [x \in DOMAIN targets |-> Interrupted(m)[x]]]
     ELSE IF a \in DOMAIN targets THEN targets[a] ELSE Interrupted(m)[a]]

\* 250 ms of the transition of mark m
TransitionStep(m) ==
  IF m.tr.left = 0 THEN m
  ELSE IF m.tr.left = 1 THEN [m EXCEPT !.tr = NoTransition]
  ELSE [m EXCEPT !.tr.left = @ - 1]

\* selection.data(data, key) on the elements elems[i], i \in sel, each keyed
\* by its datum, against the keys of the data.  update: the selected
\* elements whose key is in the data; enter: the keys of the data that no
\* selected element has, in data order; exit: the selected elements whose
\* key is not in the data.
Join(elems, sel, dataKeys) ==
  [update |-> {i \in sel : elems[i].datum \in Range(dataKeys)},
   enter |-> SelectSeq(dataKeys, LAMBDA k : \A i \in sel : elems[i].datum # k),
   exit |-> {i \in sel : elems[i].datum \notin Range(dataKeys)}]

\* createTopArtistChart: the state of the chart it builds
NewBarChart(data) ==
  [data |-> data,
   sortedAscending |-> TRUE,
   yDomain |-> Artists(data),
   yAxis |-> Artists(data),
   rects |-> [i \in DOMAIN data |->
                [datum |-> data[i].artist, y |-> Band(Artists(data), data[i].artist),
                 fill |-> "#1DB954", opacity |-> 70,
                 stroke |-> "", strokeWidth |-> Undefined, tr |-> NoTransition]],
   \* the labels of the bars: appended without a class attribute
   labels |-> [i \in DOMAIN data |->
                [class |-> "", datum |-> data[i].artist,
                 y |-> Band(Artists(data), data[i].artist), opacity |-> 0,
                 tr |-> NoTransition]],
   \* the labels the hover handlers of the bars show and hide
   hoverLabels |-> DOMAIN data,
   \* history: the array as fetched, the clicks on Sort, the last joins
   initialData |-> data,
   sortClicks |-> 0,
   lastJoin |-> [rectEnter |-> 0, rectExit |-> 0, labelEnter |-> 0, labelExit |-> 0]]

\* (mutant) the direction is set to descending by every click
ToggleStuck(asc) == FALSE

\* sortBars, line 500: the direction flips
ToggleDirection(asc) == ~asc

\* (mutant) the domain is set before the array is sorted
StaleDomain(before, after) == Artists(before)

\* sortBars, line 506: the domain of the band scale, set after the sort from
\* the sorted array (before: the array as it was when the handler started)
SortedDomain(before, after) == Artists(after)

\* the elements that svg.selectAll("text.label:not(.x.label):not(.y.label)")
\* selects among the labels of the bars
LabelSelection(labels) == {i \in DOMAIN labels : labels[i].class = "label"}

\* sortBars: the click handler of the Sort button
SortBars(bar) ==
  LET asc == ToggleDirection(bar.sortedAscending)
      data == SortData(asc, bar.data)
      domain == SortedDomain(bar.data, data)
      \* svg.selectAll("rect").data(data, d => d.artist): the update
      \* selection moves; nothing is appended or removed
      rj == Join(bar.rects, DOMAIN bar.rects, Artists(data))
      rects == [i \in DOMAIN bar.rects |->
                  IF i \in rj.update
                  THEN Transition(bar.rects[i], "move", 4,
                                  [y |-> Band(domain, bar.rects[i].datum)])
                  ELSE bar.rects[i]]
      \* updatedLabels: the update selection moves, the enter selection is
      \* appended with class "label" and opacity 0
      lj == Join(bar.labels, LabelSelection(bar.labels), Artists(data))
      moved == [i \in DOMAIN bar.labels |->
                  IF i \in lj.update
                  THEN Transition(bar.labels[i], "move", 4,
                                  [y |-> Band(domain, bar.labels[i].datum)])
                  ELSE bar.labels[i]]
      entered == [i \in DOMAIN lj.enter |->
                    Transition([class |-> "label", datum |-> lj.enter[i],
                                y |-> Band(domain, lj.enter[i]), opacity |-> 0,
                                tr |-> NoTransition],
                               "fade", 4, [opacity |-> 0])]
  IN  [bar EXCEPT
         !.sortedAscending = asc,
         !.data = data,
         !.yDomain = domain,
         !.yAxis = domain,
         !.rects = rects,
         !.labels = moved \o entered,
         !.hoverLabels = lj.update,
         !.sortClicks = IF @ < MaxClicks THEN @ + 1 ELSE @,
         !.lastJoin = [rectEnter |-> Len(rj.enter), rectExit |-> Cardinality(rj.exit),
                       labelEnter |-> Len(lj.enter), labelExit |-> Cardinality(lj.exit)]]

\* mouseover of bar i: the bar is outlined, and the labels of its artist
\* among the labels the handlers hold are shown
BarMouseOver(bar, i) ==
  [bar EXCEPT
     !.rects[i] = Transition(@, "hover", 2,
                             [fill |-> "#1DB954", opacity |-> 100,
                              stroke |-> "#191414", strokeWidth |-> 2]),
     !.labels = [j \in DOMAIN bar.labels |->
                   IF j \in bar.hoverLabels /\ bar.labels[j].datum = bar.rects[i].datum
                   THEN Transition(bar.labels[j], "fade", 2, [opacity |-> 100])
                   ELSE bar.labels[j]]]

\* mouseout of bar i
BarMouseOut(bar, i) ==
  [bar EXCEPT
     !.rects[i] = Transition(@, "hover", 2,
                             [fill |-> "#1DB954", opacity |-> 70,
                              stroke |-> "0", strokeWidth |-> 0]),
     !.labels = [j \in DOMAIN bar.labels |->
                   IF j \in bar.hoverLabels /\ bar.labels[j].datum = bar.rects[i].datum
                   THEN Transition(bar.labels[j], "fade", 2, [opacity |-> 0])
                   ELSE bar.labels[j]]]

(***************************************************************************)
(* The numbers of the scales                                               *)
(***************************************************************************)
\* a number: neither NaN nor undefined
IsNumber(v) == v >= 0

Min(a, b) == IF a < b THEN a ELSE b
Max(a, b) == IF a > b THEN a ELSE b

\* the values d3.max and d3.extent look at: they skip NaN and undefined
Numbers(values) == {v \in Range(values) : IsNumber(v)}

\* d3.max(data, accessor) over the values the accessor gives
D3Max(values) ==
  IF Numbers(values) = {} THEN Undefined
  ELSE CHOOSE m \in Numbers(values) : \A v \in Numbers(values) : v <= m

\* d3.extent(data, accessor) over the values the accessor gives
D3Extent(values) ==
  IF Numbers(values) = {} THEN <<Undefined, Undefined>>
  ELSE <<CHOOSE m \in Numbers(values) : \A v \in Numbers(values) : m <= v,
         D3Max(values)>>

\* d3.scaleLinear().domain(domain).range(range) applied to v, in whole
\* pixels.  A v that is no number gives the unknown value, undefined; a
\* bound of the domain that is no number gives NaN; a domain of one point
\* maps every v to the middle of the range; there is no clamping.
LinearScale(domain, range, v) ==
  IF ~IsNumber(v) THEN Undefined
  ELSE IF ~IsNumber(domain[1]) \/ ~IsNumber(domain[2]) THEN NaN
  ELSE IF domain[1] = domain[2] THEN (range[1] + range[2]) \div 2
  ELSE range[1] + ((v - domain[1]) * (range[2] - range[1])) \div (domain[2] - domain[1])

(***************************************************************************)
(* The scatter plot                                                        *)
(***************************************************************************)
\* [margin.left, width - margin.right] and [height - margin.bottom, margin.top]
ScatterRangeX == <<150, 770>>
ScatterRangeY == <<360, 20>>

Streams(data) == [i \in DOMAIN data |-> data[i].streams]
Reach(data) == [i \in DOMAIN data |-> data[i].reach]

\* the domain of x: the extent of the streams
ScatterDomainX(data) == D3Extent(Streams(data))

\* (mutant) the domain of y is the extent of the reach
ExtentDomainY(data) == D3Extent(Reach(data))

\* the domain of y: from 0 to the greatest reach
ScatterDomainY(data) == <<0, D3Max(Reach(data))>>

\* (mutant) the two coordinates are exchanged
CircleSwapped(xDomain, yDomain, d) ==
  [cx |-> LinearScale(yDomain, ScatterRangeY, d.reach),
   cy |-> LinearScale(xDomain, ScatterRangeX, d.streams)]

\* the centre of the circle of record d: cx = x(d.streams), cy = y(d.reach)
CircleCentre(xDomain, yDomain, d) ==
  [cx |-> LinearScale(xDomain, ScatterRangeX, d.streams),
   cy |-> LinearScale(yDomain, ScatterRangeY, d.reach)]

\* The zoom transform {k, x, y}.  k is in eighths (8 is the scale 1); tx and
\* ty are in units of 245 px, a quarter of the width of the svg.
ZoomIdentity == [k |-> 8, tx |-> 0, ty |-> 0]

\* scaleExtent([0.5, 5]), in eighths
ScaleExtent == <<4, 40>>

\* the extent of the zoom behaviour, the svg of 980 x 460 px, in units of
\* 245 px
ZoomExtent == <<<<0, 0>>, <<4, 2>>>>

\* createScatterPlot: the state of the chart it builds.  The circles are
\* bound to the records of the array by position; fill and opacity are the
\* attributes, styleOpacity the style (a style wins over an attribute).
NewScatterPlot(data) ==
  [data |-> data,
   xDomain |-> ScatterDomainX(data),
   yDomain |-> ScatterDomainY(data),
   circles |-> [i \in DOMAIN data |->
                  [datum |-> i,
                   cx |-> CircleCentre(ScatterDomainX(data), ScatterDomainY(data),
                                       data[i]).cx,
                   cy |-> CircleCentre(ScatterDomainX(data), ScatterDomainY(data),
                                       data[i]).cy,
                   fill |-> "#1DB954",
                   opacity |-> Undefined,
                   styleOpacity |-> 70,
                   tr |-> NoTransition]],
   \* the axes and the vertical gridlines, drawn once from the scales
   xAxis |-> ScatterDomainX(data),
   yAxis |-> ScatterDomainY(data),
   grid |-> ScatterDomainX(data),
   \* svg.__zoom, the transform of the zoom behaviour, and the transform
   \* attribute of the group g (no attribute is the identity)
   zoom |-> ZoomIdentity,
   gTransform |-> ZoomIdentity,
   \* the transition of resetZoom: whether one runs, and where it started.
   \* history: state is "interrupted" after a gesture has ended the
   \* transition and "ended" after the transition has reached its end, and
   \* from is then where that transition had started
   reset |-> [state |-> "none", from |-> ZoomIdentity],
   \* history: the clicks on Update Data
   updates |-> 0]

\* the content tooltip.html(...) sets: the two names and the numbers
EmptyHtml == [track |-> "", artist |-> "", numbers |-> <<>>]

\* the html of the tooltip of the scatter plot for record d
TrackHtml(d) ==
  [track |-> d.track, artist |-> d.artist, numbers |-> <<d.streams, d.reach>>]

\* mouseover of circle i, the part on the circle
CircleMouseOver(sc, i) ==
  [sc EXCEPT !.circles[i] =
               Transition(@, "hover", 2, [fill |-> "#191414", opacity |-> 50])]

\* (mutant) mouseout leaves the circle as the mouseover has made it
CircleStaysDark(sc, i) == sc

\* mouseout of circle i, the part on the circle
CircleMouseOut(sc, i) ==
  [sc EXCEPT !.circles[i] =
               Transition(@, "hover", 2, [fill |-> "#1DB954", opacity |-> 100])]

\* the factors 0.95 + Math.random() * 0.1 of update(), in fortieths: 0.95,
\* 1 and 1.025
JitterFactors == {38, 40, 41}

\* (mutant) the factor is applied twice
JitterTwice(v, f) == IF v >= 0 THEN (v * f * f) \div 40 ELSE v

\* d.streams *= factor, for the factor f / 40: the product is kept exactly,
\* in fortieths of the unit of v; NaN stays NaN
Jitter(v, f) == IF IsNumber(v) THEN v * f ELSE v

\* the unit of the values of the records after u calls of update(): every
\* call multiplies every record, so that all values are in 40^u-ths
JitterUnit(u) == 40 ^ u

\* a domain in the unit of the records
InUnit(domain, unit) ==
  [k \in DOMAIN domain |-> IF IsNumber(domain[k]) THEN domain[k] * unit ELSE domain[k]]

\* (mutant) update() sets the domain of y again, from the new values
UpdateRescaling(sc, f) ==
  LET data == [i \in DOMAIN sc.data |->
                 [sc.data[i] EXCEPT !.streams = Jitter(@, f[i].streams),
                                    !.reach = Jitter(@, f[i].reach)]]
  IN  [sc EXCEPT !.data = data,
                 !.yDomain = ScatterDomainY(data),
                 !.updates = @ + 1]

\* update(): every record is multiplied in place, f[i] being the two random
\* factors of record i; the circles move to the new values under the
\* scales of the construction
Update(sc, f) ==
  LET data == [i \in DOMAIN sc.data |->
                 [sc.data[i] EXCEPT !.streams = Jitter(@, f[i].streams),
                                    !.reach = Jitter(@, f[i].reach)]]
      unit == JitterUnit(sc.updates + 1)
  IN  [sc EXCEPT
         !.data = data,
         !.circles = [i \in DOMAIN sc.circles |->
                        Transition(sc.circles[i], "move", 4,
                                   CircleCentre(InUnit(sc.xDomain, unit),
                                                InUnit(sc.yDomain, unit),
                                                data[sc.circles[i].datum]))],
         !.updates = @ + 1]

(***************************************************************************)
(* The zoom of the scatter plot                                            *)
(***************************************************************************)
\* the scale a wheel event asks for is limited to the scale extent
ClampScale(k) == Max(ScaleExtent[1], Min(ScaleExtent[2], k))

\* the scale after one wheel step in (twice) or out (half)
WheelScale(k, dir) == IF dir = "in" THEN ClampScale(2 * k) ELSE ClampScale(k \div 2)

\* d3.interpolateZoom from the view of transform a to the view of the
\* identity, as zoom.transform runs it on a transition: the scales, in
\* eighths, that the frames of the animation pass.  With w the width of the
\* extent, p its centre and d the distance of the two view centres, the path
\* zooms out to the width sqrt(w0^2 + ((w1^2 - w0^2 + 4 d^2) / (4 d))^2)
\* between its ends when (w1^2 - w0^2 + 4 d^2) > 0 > (w1^2 - w0^2 - 4 d^2);
\* otherwise the scale moves from a.k to 8 on one side.  The frames are not
\* limited to the scale extent.
ResetScales(a) ==
  LET w == Max(ZoomExtent[2][1] - ZoomExtent[1][1], ZoomExtent[2][2] - ZoomExtent[1][2])
      px == (ZoomExtent[1][1] + ZoomExtent[2][1]) \div 2
      py == (ZoomExtent[1][2] + ZoomExtent[2][2]) \div 2
      \* a.k times the distance of the centres
      dx == (a.k - 8) * px + 8 * a.tx
      dy == (a.k - 8) * py + 8 * a.ty
      d2 == dx * dx + dy * dy
      \* a.k^2 (w1^2 - w0^2), a quarter of it
      q == ((w * w) \div 4) * (a.k * a.k - 64)
      out == q + d2 > 0 /\ q - d2 < 0
      \* 100 (a.k / k)^2 - 100 at the widest view, rounded down
      r == ((q + d2) * (q + d2)) \div ((64 * w * w * d2 + 99) \div 100)
  IN  {c \in 1..Max(a.k, 8) :
         \/ c >= Min(a.k, 8)
         \/ out /\ c * c * (100 + r) >= 100 * a.k * a.k}

\* (mutant) the transition of resetZoom ends where it started
ResetToStart(a) == a

\* the transform the transition of resetZoom ends at: d3.zoomIdentity
ResetTarget(a) == ZoomIdentity

\* resetZoom: the transition starts from the transform of this moment; a
\* transition that runs is replaced
ResetZoom(sc) == [sc EXCEPT !.reset = [state |-> "running", from |-> sc.zoom]]

\* a frame of the transition: the zoom event sets the transform of g
ResetFrame(sc, c) ==
  [sc EXCEPT !.zoom.k = c, !.gTransform = [sc.zoom EXCEPT !.k = c]]

\* the last frame of the transition
ResetEnd(sc) ==
  [sc EXCEPT !.zoom = ResetTarget(sc.reset.from),
             !.gTransform = ResetTarget(sc.reset.from),
             !.reset.state = "ended"]

\* a gesture starts: interrupt(this) ends the transition that runs
Interrupt(reset) ==
  [state |-> CASE reset.state = "running" -> "interrupted"
               [] reset.state = "ended" -> "none"
               [] OTHER -> reset.state,
   from |-> ZoomIdentity]

\* a wheel event with the pointer on the image of the origin (the
\* translation stays): ignored when the scale would not change
Wheeled(sc, dir) ==
  IF WheelScale(sc.zoom.k, dir) = sc.zoom.k THEN sc
  ELSE [sc EXCEPT !.zoom.k = WheelScale(sc.zoom.k, dir),
                  !.gTransform = [sc.zoom EXCEPT !.k = WheelScale(sc.zoom.k, dir)],
                  !.reset = Interrupt(sc.reset)]

\* a drag by (dx, dy): mousedown, the mouse moves, mouseup
Dragged(sc, dx, dy) ==
  [sc EXCEPT !.zoom.tx = @ + dx, !.zoom.ty = @ + dy,
             !.gTransform = [sc.zoom EXCEPT !.tx = @ + dx, !.ty = @ + dy],
             !.reset = Interrupt(sc.reset)]

(***************************************************************************)
(* The comparison chart of the platforms                                   *)
(***************************************************************************)
Metrics == {"total", "median", "average"}

\* d[metric]
Metric(d, m) ==
  CASE m = "total" -> d.total [] m = "median" -> d.median [] OTHER -> d.average

\* [height - margin.bottom, margin.top]
PlatformRangeY == <<340, 20>>

\* (mutant) the domain of y stays the one of the metric total
TotalDomainY(data, m) == <<0, D3Max([i \in DOMAIN data |-> data[i].total])>>

\* the domain of y for metric m: from 0 to the greatest value
PlatformDomainY(data, m) == <<0, D3Max([i \in DOMAIN data |-> Metric(data[i], m)])>>

\* y and height of the bar of value v: y(v) and height - margin.bottom - y(v)
BarGeometry(domain, v) ==
  LET top == LinearScale(domain, PlatformRangeY, v)
  IN  [y |-> top,
       height |-> IF IsNumber(top) THEN PlatformRangeY[1] - top ELSE NaN]

\* metric.charAt(0).toUpperCase() + metric.slice(1)
Capitalise(m) ==
  CASE m = "total" -> "Total" [] m = "median" -> "Median" [] OTHER -> "Average"

\* the text of the label of the y axis: the two parts of the concatenation
YLabel(m) == <<Capitalise(m), " Streams/Views">>

\* platformColors[d.platform]: undefined, no fill attribute, for another key
PlatformColor(p) ==
  CASE p = "Spotify" -> "#1DB954" [] p = "YouTube" -> "#FF0000"
    [] p = "TikTok" -> "#000000" [] OTHER -> ""

\* createPlatformComparison: the state of the chart it builds.  metric is
\* the parameter of the function, which the hover handlers read.
NewPlatformComparison(data) ==
  [data |-> data,
   metric |-> "total",
   yDomain |-> PlatformDomainY(data, "total"),
   yAxis |-> PlatformDomainY(data, "total"),
   yLabel |-> YLabel("total"),
   rects |-> [i \in DOMAIN data |->
                [datum |-> i,
                 y |-> BarGeometry(PlatformDomainY(data, "total"), data[i].total).y,
                 height |-> BarGeometry(PlatformDomainY(data, "total"),
                                        data[i].total).height,
                 fill |-> PlatformColor(data[i].platform),
                 opacity |-> Undefined,
                 tr |-> NoTransition]],
   \* history: the metric of the last call of updateChart
   shown |-> "total"]

\* (mutant) the bars are appended again, as by a data join on an empty
\* selection
UpdateChartAppending(pl, m) == [pl EXCEPT !.rects = @ \o @, !.shown = m]

\* updateChart(m): the domain, the bars, the axis and the label of y
UpdateChart(pl, m) ==
  LET domain == PlatformDomainY(pl.data, m)
  IN  [pl EXCEPT
         !.yDomain = domain,
         !.rects = [i \in DOMAIN pl.rects |->
                      Transition(pl.rects[i], "move", 4,
                                 BarGeometry(domain,
                                             Metric(pl.data[pl.rects[i].datum], m)))],
         !.yAxis = domain,
         !.yLabel = YLabel(m),
         !.shown = m]

\* the html of the tooltip of the comparison chart for record d
PlatformHtml(d, m) ==
  [track |-> d.platform, artist |-> "", numbers |-> <<Metric(d, m)>>]

\* mouseover of bar i, the part on the bar
PlatformMouseOver(pl, i) ==
  [pl EXCEPT !.rects[i] =
               Transition(@, "hover", 1,
                          [fill |-> PlatformColor(pl.data[pl.rects[i].datum].platform),
                           opacity |-> 50])]

\* mouseout of bar i, the part on the bar
PlatformMouseOut(pl, i) ==
  [pl EXCEPT !.rects[i] =
               Transition(@, "hover", 2,
                          [fill |-> PlatformColor(pl.data[pl.rects[i].datum].platform),
                           opacity |-> 100])]

(***************************************************************************)
(* customFormat, the formatter of the axis ticks                           *)
(***************************************************************************)
\* A label: the digits before the point, the digit behind it (Undefined:
\* no point) and the suffix.
Label(int, dec, suffix) == [int |-> int, dec |-> dec, suffix |-> suffix]

\* (d / unit).toFixed(1), as tenths: the nearest tenth.  up tells, when d /
\* unit is in the middle of two tenths in decimal, whether the double that
\* d / unit gives is not below that middle.
ToFixed1(d, unit, up) ==
  LET tenth == unit \div 10
      rest == d % tenth
  IN  (d \div tenth)
      + (IF 2 * rest > tenth \/ (2 * rest = tenth /\ up) THEN 1 ELSE 0)

\* (mutant) the tenths are printed as they are
KeepZero(tenths) == [int |-> tenths \div 10, dec |-> tenths % 10]

\* the digits of the tenths after .replace(/\.0$/, '')
StripZero(tenths) ==
  [int |-> tenths \div 10,
   dec |-> IF tenths % 10 = 0 THEN Undefined ELSE tenths % 10]

\* customFormat of createScatterPlot
CustomFormatScatter(d, up) ==
  IF d >= 1000000000
  THEN Label(StripZero(ToFixed1(d, 1000000000, up)).int,
             StripZero(ToFixed1(d, 1000000000, up)).dec, "B")
  ELSE IF d >= 1000000
  THEN Label(StripZero(ToFixed1(d, 1000000, up)).int,
             StripZero(ToFixed1(d, 1000000, up)).dec, "M")
  ELSE IF d >= 1000
  THEN Label(StripZero(ToFixed1(d, 1000, up)).int,
             StripZero(ToFixed1(d, 1000, up)).dec, "K")
  ELSE Label(d, Undefined, "")

\* customFormat of createTopArtistChart
CustomFormatBar(d, up) ==
  IF d >= 1000000000
  THEN Label(StripZero(ToFixed1(d, 1000000000, up)).int,
             StripZero(ToFixed1(d, 1000000000, up)).dec, "B")
  ELSE IF d >= 1000000
  THEN Label(StripZero(ToFixed1(d, 1000000, up)).int,
             StripZero(ToFixed1(d, 1000000, up)).dec, "M")
  ELSE IF d >= 1000
  THEN Label(StripZero(ToFixed1(d, 1000, up)).int,
             StripZero(ToFixed1(d, 1000, up)).dec, "K")
  ELSE Label(d, Undefined, "")

\* customFormat of createPlatformComparison
CustomFormatPlatform(d, up) ==
  IF d >= 1000000000
  THEN Label(StripZero(ToFixed1(d, 1000000000, up)).int,
             StripZero(ToFixed1(d, 1000000000, up)).dec, "B")
  ELSE IF d >= 1000000
  THEN Label(StripZero(ToFixed1(d, 1000000, up)).int,
             StripZero(ToFixed1(d, 1000000, up)).dec, "M")
  ELSE IF d >= 1000
  THEN Label(StripZero(ToFixed1(d, 1000, up)).int,
             StripZero(ToFixed1(d, 1000, up)).dec, "K")
  ELSE Label(d, Undefined, "")

\* the formatter an axis of card c calls
CustomFormat(c, d, up) ==
  CASE c = "scatterPlot" -> CustomFormatScatter(d, up)
    [] c = "topArtists" -> CustomFormatBar(d, up)
    [] OTHER -> CustomFormatPlatform(d, up)

(***************************************************************************)
(* The state of the page                                                   *)
(***************************************************************************)
VARIABLES
  containerExists, \* whether the document has the element with containerId
  dom,             \* the elements the program creates
  charts,          \* the closures of the builds: charts[b] is the state the
                   \* three create functions of build b keep
  loads,           \* the calls of integrateVisualizations
  initPromise,     \* the promise initializeDashboard returns
  errorLog,        \* the messages of console.error, in order
  unhandled,       \* the rejections no handler takes
  pointer,         \* the mark the mouse pointer is over
  ticks,           \* a tick value and the labels the three formatters give it
  steps            \* history: the steps taken, where a specification counts them

vars == <<containerExists, dom, charts, loads, initPromise, errorLog, unhandled,
          pointer, ticks, steps>>

\* what the handlers of the charts leave alone
page == <<containerExists, loads, initPromise, errorLog, unhandled, ticks>>

\* the elements: whether the three cards exist, per card the charts whose svg
\* it holds and the buttons of its controls, and in the body the tooltips
NoDom ==
  [cards |-> FALSE,
   svgs |-> [c \in Cards |-> <<>>],
   controls |-> [c \in Cards |-> <<>>],
   tooltips |-> <<>>]

NoPointer == [card |-> "", chart |-> 0, mark |-> 0]

\* no tick is drawn
NoLabel == [int |-> Undefined, dec |-> Undefined, suffix |-> ""]
NoTicks ==
  [value |-> Undefined, up |-> FALSE, done |-> FALSE,
   labels |-> [c \in Cards |-> NoLabel]]

\* container.innerHTML = ...: the content of the container is replaced by
\* the three empty cards
SetInnerHTML(d) == [d EXCEPT !.cards = TRUE,
                             !.svgs = [c \in Cards |-> <<>>],
                             !.controls = [c \in Cards |-> <<>>]]

\* (mutant) the handler of the button closes over a chart not built yet
ButtonOfNextBuild(text, b) == [text |-> text, chart |-> b + 1]

\* document.createElement('button') with its text, and the chart whose
\* marks the click handler registered on it closes over
Button(text, b) == [text |-> text, chart |-> b]

\* no transition runs on the tooltip
NoFade == [to |-> Undefined, left |-> 0]

\* d3.select("body").append("div"): the tooltip of card c of build b, with
\* its opacity in percent, the transition of its opacity and its content
NewTooltip(b, c) ==
  [chart |-> b, card |-> c, opacity |-> 0, fade |-> NoFade, html |-> EmptyHtml]

\* the elements createScatterPlot appends for build b
AppendScatterPlot(d, b) ==
  [d EXCEPT !.controls["scatterPlot"] =
              @ \o <<Button("Reset Zoom", b), Button("Update Data", b)>>,
            !.svgs["scatterPlot"] = Append(@, b),
            !.tooltips = Append(@, NewTooltip(b, "scatterPlot"))]

\* the elements createTopArtistChart appends for build b
AppendTopArtistChart(d, b) ==
  [d EXCEPT !.controls["topArtists"] = Append(@, Button("Sort", b)),
            !.svgs["topArtists"] = Append(@, b)]

\* the elements createPlatformComparison appends for build b
AppendPlatformComparison(d, b) ==
  [d EXCEPT !.controls["platformComparison"] =
              @ \o <<Button("Total", b), Button("Median", b), Button("Average", b)>>,
            !.svgs["platformComparison"] = Append(@, b),
            !.tooltips = Append(@, NewTooltip(b, "platformComparison"))]

\* the three create calls of integrateVisualizations, in their order
Display(d, b) ==
  AppendPlatformComparison(AppendTopArtistChart(AppendScatterPlot(d, b), b), b)

\* the tooltip the handlers of card c of build b hold in their closure
TooltipOf(d, b, c) ==
  CHOOSE i \in DOMAIN d.tooltips : d.tooltips[i].chart = b /\ d.tooltips[i].card = c

\* tooltip.transition().duration(500).style("opacity", 0.9) and
\* tooltip.html(html): the transition lasts two ticks of 250 ms
ShowTooltip(d, i, html) ==
  [d EXCEPT !.tooltips[i].fade = [to |-> 90, left |-> 2],
            !.tooltips[i].html = html]

\* tooltip.transition().duration(500).style("opacity", 0)
HideTooltip(d, i) == [d EXCEPT !.tooltips[i].fade = [to |-> 0, left |-> 2]]

\* 250 ms of the transition of a tooltip: on the way at the first tick (45
\* stands for every opacity between 0 and 0.9), the end value at the second
FadeStep(t) ==
  IF t.fade.left = 0 THEN t
  ELSE IF t.fade.left = 1 THEN [t EXCEPT !.opacity = t.fade.to, !.fade = NoFade]
  ELSE [t EXCEPT !.opacity = IF @ = t.fade.to THEN @ ELSE 45, !.fade.left = @ - 1]

\* integrateVisualizations up to its first await: the three fetches start
NewLoad(kind) ==
  [kind |-> kind,
   pc |-> "fetching",
   fetch |-> [e \in Endpoints |-> "pending"],
   promise |-> "pending",
   \* the promise the caller of refresh() holds: the async arrow function
   \* has returned, without an await, when the call returns
   refreshPromise |-> IF kind = "refresh" THEN "resolved" ELSE "none",
   \* history: the create functions this load has run
   created |-> {}]

\* (mutant) no catch: the exception rejects the promise
IntegrateRethrow == [promise |-> "rejected", logs |-> <<>>]

\* the catch of integrateVisualizations: the error is logged and the
\* function returns undefined
IntegrateCatch ==
  [promise |-> "undefined", logs |-> <<"Error loading visualization data:">>]

\* the end of the try block: the controller is returned
IntegrateReturn == [promise |-> "controller", logs |-> <<>>]

\* (mutant) initializeDashboard returns null without logging
AwaitIntegrateSilent(p) ==
  CASE p = "rejected" -> [promise |-> "rejected", logs |-> <<>>]
    [] p = "undefined" -> [promise |-> "null", logs |-> <<>>]
    [] OTHER -> [promise |-> "handle", logs |-> <<>>]

\* initializeDashboard after its await of integrateVisualizations
AwaitIntegrate(p) ==
  CASE p = "rejected" -> [promise |-> "rejected", logs |-> <<>>]
    [] p = "undefined" ->
         [promise |-> "null", logs |-> <<"Failed to initialize visualizations.">>]
    [] OTHER -> [promise |-> "handle", logs |-> <<>>]

\* the promise of load l settles with outcome: the microtasks that follow
LoadSettles(l, outcome) ==
  IF loads[l].kind = "initial"
  THEN LET c == AwaitIntegrate(outcome.promise)
       IN  /\ initPromise' = c.promise
           /\ errorLog' = errorLog \o outcome.logs \o c.logs
           /\ unhandled' = unhandled
  ELSE \* refresh drops the promise of integrateVisualizations
       /\ initPromise' = initPromise
       /\ errorLog' = errorLog \o outcome.logs
       /\ unhandled' = unhandled + (IF outcome.promise = "rejected" THEN 1 ELSE 0)

Init ==
  /\ containerExists \in BOOLEAN
  /\ dom = NoDom
  /\ charts = <<>>
  /\ loads = <<>>
  /\ initPromise = "notCalled"
  /\ errorLog = <<>>
  /\ unhandled = 0
  /\ pointer = NoPointer
  /\ ticks = NoTicks
  /\ steps = 0

\* (mutant) the container is not checked
ContainerUnchecked(exists) == [abort |-> FALSE, promise |-> "pending", logs |-> <<>>]

\* initializeDashboard, lines 15-20: without the container the error is
\* logged and null is returned
ContainerCheck(exists) ==
  IF exists THEN [abort |-> FALSE, promise |-> "pending", logs |-> <<>>]
  ELSE [abort |-> TRUE, promise |-> "null",
        logs |-> <<"Error: Container not found.">>]

\* initializeDashboard(containerId), called once when the document is loaded
InitializeDashboard ==
  /\ initPromise = "notCalled"
  /\ IF ContainerCheck(containerExists).abort
     THEN /\ errorLog' = errorLog \o ContainerCheck(containerExists).logs
          /\ initPromise' = ContainerCheck(containerExists).promise
          /\ UNCHANGED <<dom, loads>>
     ELSE /\ dom' = SetInnerHTML(dom)
          /\ loads' = Append(loads, NewLoad("initial"))
          /\ initPromise' = "pending"
          /\ UNCHANGED errorLog
  /\ UNCHANGED <<containerExists, charts, unhandled, pointer, ticks>>

\* a fetch of load l settles: rejected, or fulfilled with an OK or a non-OK
\* response; the reaction of Promise.all runs in the same task
FetchSettles(l, e, r) ==
  /\ loads[l].fetch[e] = "pending"
  /\ LET fetch == [loads[l].fetch EXCEPT ![e] = r]
         all == PromiseAll(fetch)
     IN  IF loads[l].pc = "fetching" /\ all = "rejected"
         THEN /\ loads' = [loads EXCEPT ![l].fetch = fetch, ![l].pc = "done",
                                        ![l].promise = IntegrateCatch.promise]
              /\ LoadSettles(l, IntegrateCatch)
         ELSE /\ loads' = [loads EXCEPT
                             ![l].fetch = fetch,
                             ![l].pc = IF @ = "fetching" /\ all = "fulfilled"
                                       THEN "reading" ELSE @]
              /\ UNCHANGED <<initPromise, errorLog, unhandled>>
  /\ UNCHANGED <<containerExists, dom, charts, pointer, ticks>>

\* The bodies of the three responses of load l, one of tracks, one of
\* artists and one of platforms, are read: the rest of the try block runs.  Nothing of the page is read or written between the three
\* json() calls, so they are one step.
BodiesReadFrom(l, tracks, artists, platforms) ==
  /\ loads[l].pc = "reading"
  /\ \E tb \in tracks, ab \in artists, pb \in platforms :
       LET n == Normalise(tb, ab, pb)
           b == Len(charts) + 1
       IN  IF n.thrown
           THEN /\ loads' = [loads EXCEPT ![l].pc = "done",
                                          ![l].promise = IntegrateCatch.promise]
                /\ LoadSettles(l, IntegrateCatch)
                /\ UNCHANGED <<dom, charts>>
           ELSE /\ dom' = Display(dom, b)
                /\ charts' = Append(charts,
                                [scatter |-> NewScatterPlot(n.scatter),
                                 bar |-> NewBarChart(n.bar),
                                 platform |-> NewPlatformComparison(n.platform)])
                /\ loads' = [loads EXCEPT ![l].pc = "done",
                                          ![l].promise = IntegrateReturn.promise,
                                          ![l].created = Cards]
                /\ LoadSettles(l, IntegrateReturn)
  /\ UNCHANGED <<containerExists, pointer, ticks>>

\* the bodies are those the responses of the three endpoints may carry
BodiesRead(l) ==
  BodiesReadFrom(l, Bodies("tracks", loads[l].fetch["tracks"]),
                 Bodies("artists", loads[l].fetch["artists"]),
                 Bodies("platforms", loads[l].fetch["platforms"]))

\* handle.refresh(): integrateVisualizations is called and not awaited
Refresh ==
  /\ initPromise = "handle"
  /\ Len(loads) < 1 + MaxRefresh
  /\ loads' = Append(loads, NewLoad("refresh"))
  /\ UNCHANGED <<containerExists, dom, charts, initPromise, errorLog, unhandled,
               pointer, ticks>>

\* a click on the i-th button of the controls of the bar chart
SortClick(i) ==
  /\ dom.controls["topArtists"][i].text = "Sort"
  /\ LET b == dom.controls["topArtists"][i].chart
     IN  charts' = [charts EXCEPT ![b].bar = SortBars(@)]
  /\ UNCHANGED <<page, dom, pointer>>

\* a click on the i-th button of the controls of the comparison chart
MetricClick(i) ==
  /\ LET b == dom.controls["platformComparison"][i].chart
         text == dom.controls["platformComparison"][i].text
         m == CASE text = "Total" -> "total" [] text = "Median" -> "median"
                [] OTHER -> "average"
     IN  charts' = [charts EXCEPT ![b].platform = UpdateChart(@, m)]
  /\ UNCHANGED <<page, dom, pointer>>

\* a click on the i-th button of the controls of the scatter plot, an
\* Update Data button: the factors are the values of Math.random()
UpdateDataClick(i) ==
  /\ dom.controls["scatterPlot"][i].text = "Update Data"
  /\ LET b == dom.controls["scatterPlot"][i].chart
     IN  /\ charts[b].scatter.updates < MaxUpdates
         /\ \E f \in [DOMAIN charts[b].scatter.data ->
                        [streams : JitterFactors, reach : JitterFactors]] :
              charts' = [charts EXCEPT ![b].scatter = Update(@, f)]
  /\ UNCHANGED <<page, dom, pointer>>

\* a click on the i-th button of the controls of the scatter plot, a Reset
\* Zoom button
ResetZoomClick(i) ==
  /\ dom.controls["scatterPlot"][i].text = "Reset Zoom"
  /\ LET b == dom.controls["scatterPlot"][i].chart
     IN  charts' = [charts EXCEPT ![b].scatter = ResetZoom(@)]
  /\ UNCHANGED <<page, dom, pointer>>

\* a wheel event on the svg of the scatter plot of build b
Wheel(b, dir) ==
  /\ charts' = [charts EXCEPT ![b].scatter = Wheeled(@, dir)]
  /\ UNCHANGED <<page, dom, pointer>>

\* a drag on the svg of the scatter plot of build b
Drag(b, dx, dy) ==
  /\ charts[b].scatter.zoom.tx + dx \in -MaxPanX..MaxPanX
  /\ charts[b].scatter.zoom.ty + dy \in -MaxPanY..MaxPanY
  /\ charts' = [charts EXCEPT ![b].scatter = Dragged(@, dx, dy)]
  /\ UNCHANGED <<page, dom, pointer>>

\* a frame of the transition of resetZoom of build b, at scale c
ZoomFrame(b, c) ==
  /\ charts[b].scatter.reset.state = "running"
  /\ c \in ResetScales(charts[b].scatter.reset.from)
  /\ charts' = [charts EXCEPT ![b].scatter = ResetFrame(@, c)]
  /\ UNCHANGED <<page, dom, pointer>>

\* the transition of resetZoom of build b ends
ZoomEnd(b) ==
  /\ charts[b].scatter.reset.state = "running"
  /\ charts' = [charts EXCEPT ![b].scatter = ResetEnd(@)]
  /\ UNCHANGED <<page, dom, pointer>>

\* the pointer enters circle i of the scatter plot of build b
MouseOverCircle(b, i) ==
  /\ pointer = NoPointer
  /\ pointer' = [card |-> "scatterPlot", chart |-> b, mark |-> i]
  /\ charts' = [charts EXCEPT ![b].scatter = CircleMouseOver(@, i)]
  /\ dom' = ShowTooltip(dom, TooltipOf(dom, b, "scatterPlot"),
                        TrackHtml(charts[b].scatter.data[
                                    charts[b].scatter.circles[i].datum]))
  /\ UNCHANGED page

\* the pointer leaves the circle it is over
MouseOutCircle ==
  /\ pointer.card = "scatterPlot"
  /\ pointer' = NoPointer
  /\ charts' = [charts EXCEPT ![pointer.chart].scatter =
                                CircleMouseOut(@, pointer.mark)]
  /\ dom' = HideTooltip(dom, TooltipOf(dom, pointer.chart, "scatterPlot"))
  /\ UNCHANGED page

\* the pointer enters bar i of the bar chart of build b
MouseOverBar(b, i) ==
  /\ pointer = NoPointer
  /\ pointer' = [card |-> "topArtists", chart |-> b, mark |-> i]
  /\ charts' = [charts EXCEPT ![b].bar = BarMouseOver(@, i)]
  /\ UNCHANGED <<page, dom>>

\* the pointer leaves the bar of the bar chart it is over
MouseOutBar ==
  /\ pointer.card = "topArtists"
  /\ pointer' = NoPointer
  /\ charts' = [charts EXCEPT ![pointer.chart].bar = BarMouseOut(@, pointer.mark)]
  /\ UNCHANGED <<page, dom>>

\* the pointer enters bar i of the comparison chart of build b.  The
\* template of the html calls d[metric].toLocaleString(): a TypeError on
\* undefined, after the transitions have been scheduled.
MouseOverPlatform(b, i) ==
  /\ pointer = NoPointer
  /\ pointer' = [card |-> "platformComparison", chart |-> b, mark |-> i]
  /\ charts' = [charts EXCEPT ![b].platform = PlatformMouseOver(@, i)]
  /\ LET pl == charts[b].platform
         d == pl.data[pl.rects[i].datum]
         t == TooltipOf(dom, b, "platformComparison")
     IN  dom' = ShowTooltip(dom, t,
                            IF Metric(d, pl.metric) = Undefined
                            THEN dom.tooltips[t].html
                            ELSE PlatformHtml(d, pl.metric))
  /\ UNCHANGED page

\* the pointer leaves the bar of the comparison chart it is over
MouseOutPlatform ==
  /\ pointer.card = "platformComparison"
  /\ pointer' = NoPointer
  /\ charts' = [charts EXCEPT ![pointer.chart].platform =
                                PlatformMouseOut(@, pointer.mark)]
  /\ dom' = HideTooltip(dom, TooltipOf(dom, pointer.chart, "platformComparison"))
  /\ UNCHANGED page

\* whether a transition runs on an element of the sequence marks
SomeRun(marks) == \E i \in DOMAIN marks : marks[i].tr.left > 0

\* whether a transition of a mark or of a tooltip runs
TransitionsRun ==
  \/ \E i \in DOMAIN dom.tooltips : dom.tooltips[i].fade.left > 0
  \/ \E b \in DOMAIN charts :
       \/ SomeRun(charts[b].scatter.circles)
       \/ SomeRun(charts[b].bar.rects)
       \/ SomeRun(charts[b].bar.labels)
       \/ SomeRun(charts[b].platform.rects)

\* 250 ms pass: the transitions of the tooltips and of the marks advance
\* together
Tick ==
  /\ TransitionsRun
  /\ dom' = [dom EXCEPT !.tooltips = [i \in DOMAIN dom.tooltips |->
                                        FadeStep(dom.tooltips[i])]]
  /\ charts' = [b \in DOMAIN charts |->
                  [charts[b] EXCEPT
                     !.scatter.circles = [i \in DOMAIN @ |-> TransitionStep(@[i])],
                     !.bar.rects = [i \in DOMAIN @ |-> TransitionStep(@[i])],
                     !.bar.labels = [i \in DOMAIN @ |-> TransitionStep(@[i])],
                     !.platform.rects = [i \in DOMAIN @ |-> TransitionStep(@[i])]]]
  /\ UNCHANGED <<page, pointer>>

\* an axis of every chart draws the tick of value ticks.value
FormatTick ==
  /\ ~ticks.done
  /\ ticks' = [ticks EXCEPT
                 !.done = TRUE,
                 !.labels = [c \in Cards |-> CustomFormat(c, ticks.value, ticks.up)]]
  /\ UNCHANGED <<containerExists, dom, charts, loads, initPromise, errorLog,
                 unhandled, pointer>>

\* a step that a specification does not count
Uncounted == UNCHANGED steps

\* a step that a specification counts, up to MaxSteps
Counted == steps < MaxSteps /\ steps' = steps + 1

Next ==
  \/ InitializeDashboard /\ Uncounted
  \/ \E l \in DOMAIN loads, e \in Endpoints, r \in {"rejected", "ok", "notok"} :
       FetchSettles(l, e, r) /\ Uncounted
  \/ \E l \in DOMAIN loads : BodiesRead(l) /\ Uncounted
  \/ Refresh /\ Uncounted
  \/ \E i \in DOMAIN dom.controls["topArtists"] : SortClick(i) /\ Uncounted

Spec == Init /\ [][Next]_vars

(***************************************************************************)
(* The page after a successful initial load                                *)
(***************************************************************************)
\* the state after initializeDashboard has built the three charts from the
\* three arrays
Loaded(scatterData, barData, platformData) ==
  /\ containerExists = TRUE
  /\ dom = Display(SetInnerHTML(NoDom), 1)
  /\ charts = <<[scatter |-> NewScatterPlot(scatterData),
                 bar |-> NewBarChart(barData),
                 platform |-> NewPlatformComparison(platformData)]>>
  /\ loads = <<[NewLoad("initial") EXCEPT
                  !.pc = "done",
                  !.fetch = [e \in Endpoints |-> "ok"],
                  !.promise = IntegrateReturn.promise,
                  !.created = Cards]>>
  /\ initPromise = "handle"
  /\ errorLog = <<>>
  /\ unhandled = 0
  /\ pointer = NoPointer
  /\ ticks = NoTicks
  /\ steps = 0

\* the arrays the specifications of one chart give to the two other charts
SomeTracks == NormaliseTracks(Json(<<TrackRowA, TrackRowB>>)).data
SomeArtists == NormaliseArtists(Json(<<ArtistRow(1, 1), ArtistRow(2, 2), ArtistRow(3, 1)>>)).data
SomePlatforms ==
  NormalisePlatforms(Json(<<PlatformEntry("Spotify", 100, 10, 5),
                            PlatformEntry("YouTube", 50, 20, 0)>>)).data

(***************************************************************************)
(* The bar chart alone: the page after a successful initial load, for      *)
(* every artist array, and the clicks on Sort                              *)
(***************************************************************************)
\* the arrays of at most MaxArtists records with distinct artists and
\* streams in 1..MaxStreams, in every order
ArtistData ==
  LET Records == [artist : {ArtistNames[i] : i \in 1..MaxArtists},
                  streams : 1..MaxStreams]
  IN  {s \in UNION {[1..n -> Records] : n \in 0..MaxArtists} :
         \A i, j \in DOMAIN s : i # j => s[i].artist # s[j].artist}

LoadedWith(barData) ==
  Loaded(SomeTracks, barData,
         NormalisePlatforms(Json(<<PlatformEntry("Spotify", 100, 10, 5)>>)).data)

BarInit == \E data \in ArtistData : LoadedWith(data)

BarNext ==
  \E i \in DOMAIN dom.controls["topArtists"] : SortClick(i) /\ Uncounted

BarSpec == BarInit /\ [][BarNext]_vars

(***************************************************************************)
(* The three charts together: every in-place operation on the page after   *)
(* a successful initial load, in any order, MaxSteps steps long            *)
(***************************************************************************)
ViewInit == Loaded(SomeTracks, SomeArtists, SomePlatforms)

ViewNext ==
  \/ \E i \in DOMAIN dom.controls["topArtists"] : SortClick(i) /\ Counted
  \/ \E i \in DOMAIN dom.controls["platformComparison"] : MetricClick(i) /\ Counted
  \/ \E i \in DOMAIN dom.controls["scatterPlot"] : UpdateDataClick(i) /\ Counted
  \/ \E i \in DOMAIN dom.controls["scatterPlot"] : ResetZoomClick(i) /\ Counted
  \/ \E b \in DOMAIN charts, dir \in {"in", "out"} : Wheel(b, dir) /\ Counted
  \/ \E b \in DOMAIN charts, dx, dy \in {-1, 0, 1} : Drag(b, dx, dy) /\ Counted
  \/ \E b \in DOMAIN charts, c \in 1..ScaleExtent[2] : ZoomFrame(b, c) /\ Counted
  \/ \E b \in DOMAIN charts : ZoomEnd(b) /\ Counted
  \/ \E b \in DOMAIN charts : \E i \in DOMAIN charts[b].scatter.circles :
       MouseOverCircle(b, i) /\ Counted
  \/ MouseOutCircle /\ Counted
  \/ \E b \in DOMAIN charts : \E i \in DOMAIN charts[b].bar.rects :
       MouseOverBar(b, i) /\ Counted
  \/ MouseOutBar /\ Counted
  \/ \E b \in DOMAIN charts : \E i \in DOMAIN charts[b].platform.rects :
       MouseOverPlatform(b, i) /\ Counted
  \/ MouseOutPlatform /\ Counted
  \/ Tick /\ Counted

ViewSpec == ViewInit /\ [][ViewNext]_vars

(***************************************************************************)
(* The comparison chart alone, for every array of platforms, and the       *)
(* clicks on its three buttons                                             *)
(***************************************************************************)
PlatformNames == <<"Spotify", "YouTube">>

\* the arrays of one record per platform, the first platforms of
\* PlatformNames, with the three metrics in 0..MaxMetric
PlatformData ==
  UNION {[1..n -> [total : 0..MaxMetric, average : 0..MaxMetric,
                   median : 0..MaxMetric]] : n \in 1..Len(PlatformNames)}

MetricInit ==
  \E values \in PlatformData :
    Loaded(SomeTracks, SomeArtists,
           [i \in DOMAIN values |->
              [platform |-> PlatformNames[i], total |-> values[i].total,
               average |-> values[i].average, median |-> values[i].median]])

MetricNext ==
  \E i \in DOMAIN dom.controls["platformComparison"] : MetricClick(i) /\ Uncounted

MetricSpec == MetricInit /\ [][MetricNext]_vars

(***************************************************************************)
(* The zoom of the scatter plot alone                                      *)
(***************************************************************************)
ZoomInit == Loaded(SomeTracks, SomeArtists, SomePlatforms)

ZoomNext ==
  \/ \E i \in DOMAIN dom.controls["scatterPlot"] : ResetZoomClick(i) /\ Uncounted
  \/ \E b \in DOMAIN charts, dir \in {"in", "out"} : Wheel(b, dir) /\ Uncounted
  \/ \E b \in DOMAIN charts, dx, dy \in {-1, 0, 1} : Drag(b, dx, dy) /\ Uncounted
  \/ \E b \in DOMAIN charts, c \in 1..ScaleExtent[2] : ZoomFrame(b, c) /\ Uncounted
  \/ \E b \in DOMAIN charts : ZoomEnd(b) /\ Uncounted

ZoomSpec == ZoomInit /\ [][ZoomNext]_vars

\* the timer of d3 runs the transition to its end unless a gesture
\* interrupts it
ZoomFairSpec ==
  ZoomSpec /\ WF_vars(\E b \in DOMAIN charts : ZoomEnd(b) /\ Uncounted)

(***************************************************************************)
(* The scatter plot alone, for every array of tracks, and the hover of its *)
(* circles                                                                 *)
(***************************************************************************)
TrackNames == <<[track |-> "A", artist |-> "X"], [track |-> "B", artist |-> "Y"]>>

\* what parseFloat gives for a field of a track
TrackValues == {NaN} \cup {1000 * v : v \in 0..MaxTrackValue}

\* the arrays of the first tracks of TrackNames
TrackData ==
  UNION {[1..n -> [streams : TrackValues, reach : TrackValues]] :
           n \in 0..Len(TrackNames)}

ScatterInit ==
  \E values \in TrackData :
    Loaded([i \in DOMAIN values |->
              [streams |-> values[i].streams, reach |-> values[i].reach,
               track |-> TrackNames[i].track, artist |-> TrackNames[i].artist]],
           SomeArtists, SomePlatforms)

ScatterNext ==
  \/ \E b \in DOMAIN charts : \E i \in DOMAIN charts[b].scatter.circles :
       MouseOverCircle(b, i) /\ Uncounted
  \/ MouseOutCircle /\ Uncounted
  \/ Tick /\ Uncounted

ScatterSpec == ScatterInit /\ [][ScatterNext]_vars

(***************************************************************************)
(* The hover of the scatter plot and of the comparison chart together      *)
(***************************************************************************)
HoverInit == Loaded(SomeTracks, SomeArtists, SomePlatforms)

HoverNext ==
  \/ \E b \in DOMAIN charts : \E i \in DOMAIN charts[b].scatter.circles :
       MouseOverCircle(b, i) /\ Uncounted
  \/ MouseOutCircle /\ Uncounted
  \/ \E b \in DOMAIN charts : \E i \in DOMAIN charts[b].platform.rects :
       MouseOverPlatform(b, i) /\ Uncounted
  \/ MouseOutPlatform /\ Uncounted
  \/ Tick /\ Uncounted

HoverSpec == HoverInit /\ [][HoverNext]_vars

(***************************************************************************)
(* The pointer over the marks of the three charts                          *)
(***************************************************************************)
\* the charts have two circles, one bar and one bar
PointerInit ==
  Loaded(SomeTracks,
         NormaliseArtists(Json(<<ArtistRow(1, 1)>>)).data,
         NormalisePlatforms(Json(<<PlatformEntry("Spotify", 100, 10, 5)>>)).data)

PointerNext ==
  \/ \E b \in DOMAIN charts : \E i \in DOMAIN charts[b].scatter.circles :
       MouseOverCircle(b, i) /\ Uncounted
  \/ MouseOutCircle /\ Uncounted
  \/ \E b \in DOMAIN charts : \E i \in DOMAIN charts[b].bar.rects :
       MouseOverBar(b, i) /\ Uncounted
  \/ MouseOutBar /\ Uncounted
  \/ \E b \in DOMAIN charts : \E i \in DOMAIN charts[b].platform.rects :
       MouseOverPlatform(b, i) /\ Uncounted
  \/ MouseOutPlatform /\ Uncounted
  \/ Tick /\ Uncounted

PointerSpec == PointerInit /\ [][PointerNext]_vars

(***************************************************************************)
(* The moving marks: the clicks that start a transition of the positions,  *)
(* the pointer over the marks, and the time, MaxMoveSteps steps long       *)
(***************************************************************************)
MoveInit ==
  Loaded(NormaliseTracks(Json(<<TrackRowA>>)).data,
         NormaliseArtists(Json(<<ArtistRow(1, 1), ArtistRow(2, 2)>>)).data,
         SomePlatforms)

\* a step that the specification of the moving marks counts
CountedMove == steps < MaxMoveSteps /\ steps' = steps + 1

MoveNext ==
  \/ \E i \in DOMAIN dom.controls["topArtists"] : SortClick(i) /\ CountedMove
  \/ \E i \in DOMAIN dom.controls["platformComparison"] : MetricClick(i) /\ CountedMove
  \/ \E i \in DOMAIN dom.controls["scatterPlot"] : UpdateDataClick(i) /\ CountedMove
  \/ \E b \in DOMAIN charts : \E i \in DOMAIN charts[b].scatter.circles :
       MouseOverCircle(b, i) /\ CountedMove
  \/ MouseOutCircle /\ CountedMove
  \/ \E b \in DOMAIN charts : \E i \in DOMAIN charts[b].bar.rects :
       MouseOverBar(b, i) /\ CountedMove
  \/ MouseOutBar /\ CountedMove
  \/ \E b \in DOMAIN charts : \E i \in DOMAIN charts[b].platform.rects :
       MouseOverPlatform(b, i) /\ CountedMove
  \/ MouseOutPlatform /\ CountedMove
  \/ Tick /\ CountedMove

MoveSpec == MoveInit /\ [][MoveNext]_vars

(***************************************************************************)
(* The initial load with three OK responses, for every array of track rows *)
(***************************************************************************)
\* what a numeric field of a track row holds: a number, or no number
RawValues == {Bad} \cup {Num(1000 * v) : v \in 0..MaxTrackValue}

\* the arrays of rows of the first tracks of TrackNames
RawTrackData ==
  LET Rows(n) == [1..n -> [Streams : RawValues, Reach : RawValues]]
  IN  {[i \in DOMAIN values |->
          [Streams |-> values[i].Streams, Reach |-> values[i].Reach,
           Track |-> TrackNames[i].track, Artist |-> TrackNames[i].artist]] :
         values \in UNION {Rows(n) : n \in 0..Len(TrackNames)}}

BuildInit == Init /\ containerExists

BuildNext ==
  \/ InitializeDashboard /\ Uncounted
  \/ \E l \in DOMAIN loads, e \in Endpoints : FetchSettles(l, e, "ok") /\ Uncounted
  \/ \E l \in DOMAIN loads :
       BodiesReadFrom(l, {Json(rows) : rows \in RawTrackData},
                      {Json(rows) : rows \in ArtistArrays},
                      {Json(<<PlatformEntry("Spotify", 100, 10, 5)>>)}) /\ Uncounted

BuildSpec == BuildInit /\ [][BuildNext]_vars

(***************************************************************************)
(* The formatter of the ticks alone, for the values of TickValues          *)
(***************************************************************************)
\* the multiples of 50, of 50 thousand and of 50 million up to MaxTick of
\* them, and the values next to a change of suffix
TickValues ==
  {50 * n * s : n \in 0..MaxTick, s \in {1, 1000, 1000000}}
    \cup {999, 999949, 999950, 999999, 999999999, 1049999999}

\* the unit customFormat divides d by
Unit(d) ==
  IF d >= 1000000000 THEN 1000000000
  ELSE IF d >= 1000000 THEN 1000000 ELSE 1000

\* The values of up for tick value d.  It matters when d / unit is in the
\* middle of two tenths: the double is that middle when it ends in .25 or
\* .75, which are binary fractions, and lies on either side of it otherwise.
Ups(d) ==
  IF 2 * (d % (Unit(d) \div 10)) # Unit(d) \div 10 THEN {FALSE}
  ELSE IF (d \div (Unit(d) \div 100)) % 100 \in {25, 75} THEN {TRUE}
  ELSE BOOLEAN

FormatInit ==
  /\ \E d \in TickValues, up \in BOOLEAN :
       /\ up \in Ups(d)
       /\ ticks = [NoTicks EXCEPT !.value = d, !.up = up]
  /\ containerExists = TRUE
  /\ dom = NoDom
  /\ charts = <<>>
  /\ loads = <<>>
  /\ initPromise = "notCalled"
  /\ errorLog = <<>>
  /\ unhandled = 0
  /\ pointer = NoPointer
  /\ steps = 0

FormatNext == FormatTick /\ Uncounted

FormatSpec == FormatInit /\ [][FormatNext]_vars

(***************************************************************************)
(* The claims                                                              *)
(***************************************************************************)
Resolved(l) == \A e \in Endpoints : loads[l].fetch[e] \in {"ok", "notok"}
Rejected(l) == \E e \in Endpoints : loads[l].fetch[e] = "rejected"

\* the loads that have run the create function of card c
Creators(c) == {l \in DOMAIN loads : c \in loads[l].created}

\* C1: no create function runs in a load before its three fetches have
\* resolved; a load with a rejected fetch runs none; a load runs none or all
\* three; and every svg of a card was appended by such a load.
C1_ChartsOnlyAfterAllFetches ==
  /\ \A l \in DOMAIN loads :
       /\ loads[l].created # {} => Resolved(l)
       /\ Rejected(l) => loads[l].created = {}
       /\ loads[l].created \in {{}, Cards}
  /\ \A c \in Cards : Len(dom.svgs[c]) = Cardinality(Creators(c))

\* C1 witness: a refresh whose fetch of the platforms was rejected after the
\* two others had resolved has ended without a chart, beside a load that
\* built the three charts.
C1_Witness ==
  \E l \in DOMAIN loads :
    /\ loads[l].kind = "refresh"
    /\ loads[l].pc = "done"
    /\ loads[l].fetch["tracks"] = "ok"
    /\ loads[l].fetch["artists"] = "ok"
    /\ loads[l].fetch["platforms"] = "rejected"
    /\ loads[l].created = {}
    /\ loads[1].created = Cards

\* C2 (the claim as stated): a load that has ended and had a non-OK response
\* has constructed no chart and has logged an error.
C2_NonOkAbortsBatch ==
  \A l \in DOMAIN loads :
    (loads[l].pc = "done" /\ \E e \in Endpoints : loads[l].fetch[e] = "notok")
      => loads[l].created = {} /\ errorLog # <<>>

ControlsPerCard(c) ==
  CASE c = "scatterPlot" -> 2 [] c = "topArtists" -> 1 [] OTHER -> 3

\* C3 (the claim as stated): once a load has built the charts, every card
\* holds exactly one svg, with one mark per record of the chart's data, and
\* exactly one set of controls.
C3_OneChartPerCard ==
  (\E l \in DOMAIN loads : loads[l].created = Cards) =>
    /\ \A c \in Cards :
         /\ Len(dom.svgs[c]) = 1
         /\ Len(dom.controls[c]) = ControlsPerCard(c)
    /\ \A b \in DOMAIN charts :
         /\ Len(charts[b].scatter.circles) = Len(charts[b].scatter.data)
         /\ Len(charts[b].bar.rects) = Len(charts[b].bar.data)
         /\ Len(charts[b].platform.rects) = Len(charts[b].platform.data)

RECURSIVE MarkCount(_)
\* the circles and bars of the builds
MarkCount(cs) ==
  IF cs = <<>> THEN 0
  ELSE Len(Head(cs).scatter.circles) + Len(Head(cs).bar.rects)
       + Len(Head(cs).platform.rects) + MarkCount(Tail(cs))

\* the initial load has ended on a rejected fetch
InitialFetchFailed == loads # <<>> /\ loads[1].pc = "done" /\ Rejected(1)

\* C4 (the claim as stated): when a fetch of the initial load fails, there
\* is no mark and exactly one error is logged.
C4_OneErrorLogged ==
  InitialFetchFailed => MarkCount(charts) = 0 /\ Len(errorLog) = 1

\* C4 (amended): when a fetch of the initial load fails, there is no mark
\* and exactly two errors are logged, the one of the catch of
\* integrateVisualizations and then the one of initializeDashboard.
C4_TwoErrorsLogged ==
  InitialFetchFailed =>
    /\ MarkCount(charts) = 0
    /\ \A c \in Cards : dom.svgs[c] = <<>>
    /\ errorLog = <<"Error loading visualization data:",
                    "Failed to initialize visualizations.">>
    /\ initPromise = "null"

\* C4 witness: the initial load has failed on a rejected fetch
C4_Witness == InitialFetchFailed /\ initPromise = "null"

\* C5: a step of a refresh that builds nothing, or that has a rejected
\* fetch, leaves the elements and the state of the charts (marks, axes,
\* controls, data arrays, view state) as they were.
C5_FailedRefreshChangesNothing ==
  [][(\E l \in DOMAIN loads' :
        /\ loads'[l].kind = "refresh"
        /\ (l \notin DOMAIN loads \/ loads'[l] # loads[l])
        /\ \/ loads'[l].created = {}
           \/ \E e \in Endpoints : loads'[l].fetch[e] = "rejected")
     => UNCHANGED <<dom, charts>>]_vars

\* C5 witness: a refresh has failed on a rejected fetch while the bar chart
\* of the dashboard was in a sorted, non-initial view state
C5_Witness ==
  \E l \in DOMAIN loads :
    /\ loads[l].kind = "refresh"
    /\ loads[l].pc = "done"
    /\ Rejected(l)
    /\ loads[l].promise = "undefined"
    /\ charts # <<>>
    /\ charts[1].bar.sortClicks = 1
    /\ ~charts[1].bar.sortedAscending

\* C6: without the container, initializeDashboard logs one error and
\* resolves to null; no fetch starts, no element is created, nothing is
\* thrown.
C6_MissingContainer ==
  (~containerExists /\ initPromise # "notCalled") =>
    /\ initPromise = "null"
    /\ errorLog = <<"Error: Container not found.">>
    /\ loads = <<>>
    /\ dom = NoDom
    /\ charts = <<>>
    /\ unhandled = 0

\* C6 witness: initializeDashboard has returned without the container
C6_Witness == ~containerExists /\ initPromise = "null"

\* C7: no promise of initializeDashboard, integrateVisualizations or
\* refresh() is rejected and no rejection is left unhandled;
\* initializeDashboard resolves to the handle exactly when the initial load
\* has built the charts and to null when it has ended without them.
C7_NothingEscapes ==
  /\ initPromise # "rejected"
  /\ unhandled = 0
  /\ \A l \in DOMAIN loads :
       /\ loads[l].promise # "rejected"
       /\ loads[l].refreshPromise # "rejected"
       /\ loads[l].pc = "done" => loads[l].promise \in {"controller", "undefined"}
  /\ initPromise = "handle" <=> (loads # <<>> /\ loads[1].created = Cards)
  /\ (loads # <<>> /\ loads[1].pc = "done" /\ loads[1].created = {})
       => initPromise = "null"

\* C7 witness: the initial load has failed although every fetch resolved
\* with an OK response (a body that does not decode or lacks its fields)
C7_Witness ==
  /\ loads # <<>>
  /\ loads[1].pc = "done"
  /\ \A e \in Endpoints : loads[1].fetch[e] = "ok"
  /\ loads[1].created = {}
  /\ initPromise = "null"

IsNonDecreasing(data) ==
  \A i, j \in DOMAIN data : i < j => data[i].streams <= data[j].streams

\* the array, the band-scale domain and the bars of a bar chart are in the
\* order of the array as fetched
Restored(bar) ==
  /\ bar.data = bar.initialData
  /\ bar.yDomain = Artists(bar.initialData)
  /\ \A i \in DOMAIN bar.rects :
       bar.rects[i].y = Band(Artists(bar.initialData), bar.rects[i].datum)

\* C8 (the claim as stated): for every initial order, two clicks on Sort
\* return the array, the domain and the bars to the original order.
C8_TwoClicksRestore ==
  \A b \in DOMAIN charts : charts[b].bar.sortClicks = 2 => Restored(charts[b].bar)

\* C8 (amended): two clicks on Sort return the array, the domain and the
\* bars to the original order exactly when the original order is
\* non-decreasing by streams; in every case the array is then non-decreasing
\* by streams and the direction is ascending again.
C8_TwoClicksRestoreIffSorted ==
  \A b \in DOMAIN charts :
    charts[b].bar.sortClicks = 2 =>
      /\ Restored(charts[b].bar) <=> IsNonDecreasing(charts[b].bar.initialData)
      /\ IsNonDecreasing(charts[b].bar.data)
      /\ charts[b].bar.sortedAscending

\* C8 witness: two clicks on an array of three artists that was
\* non-decreasing, with a tie and with two different values
C8_Witness ==
  \E b \in DOMAIN charts :
    LET bar == charts[b].bar
    IN  /\ bar.sortClicks = 2
        /\ Len(bar.initialData) = 3
        /\ IsNonDecreasing(bar.initialData)
        /\ bar.initialData[1].streams = bar.initialData[2].streams
        /\ bar.initialData[2].streams < bar.initialData[3].streams
        /\ Restored(bar)

\* C9: the domain of the band scale, and the order of the axis drawn from
\* it, is the artists of the array in the order of the array, after every
\* click on Sort.
C9_DomainFollowsData ==
  \A b \in DOMAIN charts :
    /\ charts[b].bar.yDomain = Artists(charts[b].bar.data)
    /\ charts[b].bar.yAxis = Artists(charts[b].bar.data)

\* C9 witness: a click on Sort has changed the order of the array
C9_Witness ==
  \E b \in DOMAIN charts :
    /\ charts[b].bar.sortClicks >= 1
    /\ charts[b].bar.data # charts[b].bar.initialData
    /\ Len(charts[b].bar.data) = 3

\* C10 (the claim as stated): the joins of a click on Sort, of the bars and
\* of the labels, have no entering and no exiting element, on the first
\* click as on every later one.
C10_NoEnterNoExit ==
  \A b \in DOMAIN charts :
    charts[b].bar.sortClicks >= 1 =>
      charts[b].bar.lastJoin =
        [rectEnter |-> 0, rectExit |-> 0, labelEnter |-> 0, labelExit |-> 0]

\* the marks are bound one-to-one to the records of keys
OneMarkPerRecord(marks, keys) ==
  /\ Len(marks) = Len(keys)
  /\ \A k \in DOMAIN keys :
       Cardinality({i \in DOMAIN marks : marks[i].datum = keys[k]}) = 1

\* C11: after every sequence of clicks on Sort, on a metric, on Update
\* Data and on Reset Zoom, of hovers and of zoom gestures, every chart has
\* exactly one mark per record of its data, every mark bound to one record,
\* and the numbers of circles and of bars are those of the construction.
C11_OneMarkPerRecord ==
  \A b \in DOMAIN charts :
    /\ OneMarkPerRecord(charts[b].scatter.circles,
                        [i \in DOMAIN charts[b].scatter.data |-> i])
    /\ OneMarkPerRecord(charts[b].bar.rects, Artists(charts[b].bar.data))
    /\ OneMarkPerRecord(charts[b].platform.rects,
                        [i \in DOMAIN charts[b].platform.data |-> i])
    /\ Len(charts[b].scatter.circles) = Len(SomeTracks)
    /\ Len(charts[b].bar.rects) = Len(SomeArtists)
    /\ Len(charts[b].platform.rects) = Len(SomePlatforms)

\* C11 witness: a click on Sort, a click on Update Data and a wheel step
\* have been made on the charts of one page
C11_Witness ==
  /\ steps = 3
  /\ charts[1].bar.sortClicks = 1
  /\ charts[1].scatter.updates = 1
  /\ charts[1].scatter.zoom.k = 16

\* the greatest value of metric m in data, 0 for no data
GreatestMetric(data, m) ==
  LET S == {Metric(data[i], m) : i \in DOMAIN data}
  IN  CHOOSE v \in S : \A w \in S : w <= v

\* C12: after every sequence of clicks on Total, Median and Average the
\* chart shows the metric of the last click: the domain of y is from 0 to
\* the greatest value of that metric, every bar has y = y(d[metric]) and
\* height = baseline - y(d[metric]), and the label of y is the capitalised
\* metric followed by " Streams/Views".
C12_LastMetricShown ==
  \A b \in DOMAIN charts :
    LET pl == charts[b].platform
        m == pl.shown
        domain == <<0, GreatestMetric(pl.data, m)>>
    IN  /\ pl.yDomain = domain
        /\ pl.yAxis = domain
        /\ \A i \in DOMAIN pl.rects :
             LET v == Metric(pl.data[pl.rects[i].datum], m)
             IN  /\ pl.rects[i].y = LinearScale(domain, PlatformRangeY, v)
                 /\ pl.rects[i].height
                      = PlatformRangeY[1] - LinearScale(domain, PlatformRangeY, v)
        /\ pl.yLabel = <<CASE m = "total" -> "Total" [] m = "median" -> "Median"
                           [] m = "average" -> "Average", " Streams/Views">>

\* C12 witness: Median is shown for two platforms whose greatest median is
\* not their greatest total, the smaller bar at half of the height
C12_Witness ==
  \E b \in DOMAIN charts :
    LET pl == charts[b].platform
    IN  /\ pl.shown = "median"
        /\ Len(pl.data) = 2
        /\ pl.yDomain = <<0, 2>>
        /\ GreatestMetric(pl.data, "total") = 1
        /\ pl.rects[1].height = 160
        /\ pl.rects[2].height = 320

\* C13 (the claim as stated): with one platform record, the domain of y
\* ends at the value of the shown metric and the bar has the full height
\* of the plot, for every value from 0 on.
C13_SingleBarFullHeight ==
  \A b \in DOMAIN charts :
    LET pl == charts[b].platform
    IN  Len(pl.data) = 1 =>
          /\ pl.yDomain = <<0, Metric(pl.data[1], pl.shown)>>
          /\ pl.rects[1].height = PlatformRangeY[1] - PlatformRangeY[2]

\* C13 (what the code does): with one platform record, the domain of y ends at the
\* value of the shown metric; the bar has the full height of the plot
\* (height - margin.bottom - margin.top = 320) when the value is positive,
\* and half of it (160) when the value is 0, the domain then being [0, 0].
C13_SingleBarFullHeightIfPositive ==
  \A b \in DOMAIN charts :
    LET pl == charts[b].platform
        v == Metric(pl.data[1], pl.shown)
    IN  Len(pl.data) = 1 =>
          /\ pl.yDomain = <<0, v>>
          /\ v > 0 => pl.rects[1].y = 20 /\ pl.rects[1].height = 320
          /\ v = 0 => pl.rects[1].y = 180 /\ pl.rects[1].height = 160

\* C13, the failing case reached: a click on Median with one record whose median is 0 and
\* whose total is not
C13_Witness ==
  \E b \in DOMAIN charts :
    LET pl == charts[b].platform
    IN  /\ Len(pl.data) = 1
        /\ pl.shown = "median"
        /\ pl.data[1].median = 0
        /\ pl.data[1].total = 2
        /\ pl.rects[1].height = 160

\* C14 (the claim as stated): after a click on Reset Zoom, once no
\* transition runs any more, the transform is the identity, also when a
\* gesture has come during the animation.
C14_ResetAlwaysIdentity ==
  \A b \in DOMAIN charts :
    charts[b].scatter.reset.state \in {"ended", "interrupted"} =>
      /\ charts[b].scatter.zoom = ZoomIdentity
      /\ charts[b].scatter.gTransform = ZoomIdentity

\* C14 (amended): a click on Reset Zoom leads to the end of its animation
\* or to a gesture that interrupts it, also when further clicks on Reset
\* Zoom come during the animation; when the animation has reached its end
\* the transform is the identity {k: 1, x: 0, y: 0}.
C14_ResetIdentityUnlessInterrupted ==
  /\ [](\A b \in DOMAIN charts :
          charts[b].scatter.reset.state = "ended" =>
            /\ charts[b].scatter.zoom = ZoomIdentity
            /\ charts[b].scatter.gTransform = ZoomIdentity)
  /\ (charts[1].scatter.reset.state = "running")
       ~> (charts[1].scatter.reset.state # "running")

\* C14 witness: the animation has ended at the identity; it had started
\* at the smallest scale with the plot dragged to the left and upwards
C14_Witness ==
  \E b \in DOMAIN charts :
    /\ charts[b].scatter.reset.state = "ended"
    /\ charts[b].scatter.reset.from = [k |-> 4, tx |-> -4, ty |-> -1]
    /\ charts[b].scatter.zoom = ZoomIdentity

\* C15 (the claim as stated): in every reachable state the scale of the
\* transform of the group is within the scale extent, 0.5 <= k <= 5.
C15_ScaleWithinExtent ==
  \A b \in DOMAIN charts :
    /\ charts[b].scatter.gTransform.k \in ScaleExtent[1]..ScaleExtent[2]
    /\ charts[b].scatter.zoom.k \in ScaleExtent[1]..ScaleExtent[2]

\* the tooltips of card c of build b
TooltipsOf(b, c) ==
  {i \in DOMAIN dom.tooltips : dom.tooltips[i].chart = b /\ dom.tooltips[i].card = c}

\* C16 (the claim as stated): once charts are built there is exactly one
\* tooltip, which the scatter plot and the comparison chart share.
C16_OneTooltip == charts # <<>> => Len(dom.tooltips) = 1

\* C16 (what the code does): every build appends two tooltips, one that the scatter
\* plot shows and one that the comparison chart shows; there are twice as
\* many tooltips as builds, and none is removed.
C16_TwoTooltipsPerBuild ==
  /\ Len(dom.tooltips) = 2 * Len(charts)
  /\ \A b \in DOMAIN charts :
       /\ Cardinality(TooltipsOf(b, "scatterPlot")) = 1
       /\ Cardinality(TooltipsOf(b, "platformComparison")) = 1
       /\ TooltipsOf(b, "topArtists") = {}

\* C16, the failing case reached: the initial load and a refresh have built the charts
C16_Witness == Len(charts) = 2 /\ Len(dom.tooltips) = 4

\* the tooltips that are visible
Visible == {i \in DOMAIN dom.tooltips : dom.tooltips[i].opacity > 0}

\* C17 (the claim as stated): under every interleaving of pointer-enter
\* and pointer-leave on the marks of the scatter plot and of the comparison
\* chart at most one tooltip is visible.
C17_AtMostOneVisible == Cardinality(Visible) <= 1

\* the content the last mouseover of the mark under the pointer has set
PointerHtml ==
  LET c == charts[pointer.chart]
  IN  IF pointer.card = "scatterPlot"
      THEN TrackHtml(c.scatter.data[c.scatter.circles[pointer.mark].datum])
      ELSE PlatformHtml(c.platform.data[c.platform.rects[pointer.mark].datum], "total")

\* C17 (what the code does): the tooltip of the chart whose mark the pointer is over
\* has the content of the last show call; once the transitions have ended,
\* that tooltip and no other is visible, and no tooltip is visible when the
\* pointer has left; while transitions run, the tooltip of one chart
\* may still fade out when the one of the other chart fades in.
C17_OneVisibleAfterTransitions ==
  /\ pointer # NoPointer =>
       dom.tooltips[TooltipOf(dom, pointer.chart, pointer.card)].html = PointerHtml
  /\ (\A i \in DOMAIN dom.tooltips : dom.tooltips[i].fade.left = 0) =>
       IF pointer = NoPointer THEN Visible = {}
       ELSE Visible = {TooltipOf(dom, pointer.chart, pointer.card)}

\* C17, the failing case reached: the tooltip of the scatter plot fades out and the one of
\* the comparison chart fades in, both partly visible
C17_Witness ==
  /\ pointer.card = "platformComparison"
  /\ dom.tooltips[TooltipOf(dom, 1, "scatterPlot")].opacity = 45
  /\ dom.tooltips[TooltipOf(dom, 1, "scatterPlot")].fade.to = 0
  /\ dom.tooltips[TooltipOf(dom, 1, "platformComparison")].opacity = 45

\* the label is the value in the unit of the suffix, to the nearest
\* tenth, without a tenth of 0
NearestTenth(label, d, unit) ==
  LET tenths == 10 * label.int + (IF label.dec = Undefined THEN 0 ELSE label.dec)
      tenth == unit \div 10
  IN  /\ label.dec # 0
      /\ label.dec \in {Undefined} \cup 1..9
      /\ tenths * tenth - d <= tenth \div 2
      /\ d - tenths * tenth <= tenth \div 2

\* C18: for every tick value v >= 0 the label is v / 10^9 with one decimal
\* and B from 10^9 on, v / 10^6 and M from 10^6 on, v / 10^3 and K from
\* 10^3 on, without a trailing .0, and the digits of v below 10^3; 999,
\* 1000, 1500, 1000000 and 2000000000 give 999, 1K, 1.5K, 1M and 2B; the
\* three formatters give the same label.
C18_TickLabels ==
  ticks.done =>
    LET d == ticks.value
        l == ticks.labels["scatterPlot"]
    IN  /\ \A c \in Cards : ticks.labels[c] = l
        /\ d >= 1000000000 => l.suffix = "B" /\ NearestTenth(l, d, 1000000000)
        /\ (d >= 1000000 /\ d < 1000000000) =>
             l.suffix = "M" /\ NearestTenth(l, d, 1000000)
        /\ (d >= 1000 /\ d < 1000000) => l.suffix = "K" /\ NearestTenth(l, d, 1000)
        /\ d < 1000 => l = [int |-> d, dec |-> Undefined, suffix |-> ""]
        /\ d = 999 => l = [int |-> 999, dec |-> Undefined, suffix |-> ""]
        /\ d = 1000 => l = [int |-> 1, dec |-> Undefined, suffix |-> "K"]
        /\ d = 1500 => l = [int |-> 1, dec |-> 5, suffix |-> "K"]
        /\ d = 1000000 => l = [int |-> 1, dec |-> Undefined, suffix |-> "M"]
        /\ d = 2000000000 => l = [int |-> 2, dec |-> Undefined, suffix |-> "B"]

\* C18 witness: the tick of 2000000000 is drawn as 2B by the three charts
C18_Witness ==
  /\ ticks.done
  /\ ticks.value = 2000000000
  /\ \A c \in Cards : ticks.labels[c] = [int |-> 2, dec |-> Undefined, suffix |-> "B"]

\* the least and the greatest of the numbers of values
LeastOf(values) == CHOOSE m \in Numbers(values) : \A v \in Numbers(values) : m <= v
GreatestOf(values) == CHOOSE m \in Numbers(values) : \A v \in Numbers(values) : v <= m

\* C19 (the claim as stated): the domain of x is [min(streams),
\* max(streams)] and the domain of y is [min(reach), max(reach)].
C19_DomainsAreExtents ==
  \A b \in DOMAIN charts :
    LET sc == charts[b].scatter
    IN  /\ Numbers(Streams(sc.data)) # {} =>
             sc.xDomain = <<LeastOf(Streams(sc.data)), GreatestOf(Streams(sc.data))>>
        /\ Numbers(Reach(sc.data)) # {} =>
             sc.yDomain = <<LeastOf(Reach(sc.data)), GreatestOf(Reach(sc.data))>>

\* C19 (amended): the domain of x is [min(streams), max(streams)] and the
\* domain of y is [0, max(reach)], over the values that are numbers; the
\* bounds taken from the data are undefined when no value is a number.
C19_DomainXExtentYFromZero ==
  \A b \in DOMAIN charts :
    LET sc == charts[b].scatter
    IN  /\ sc.xDomain = IF Numbers(Streams(sc.data)) = {}
                        THEN <<Undefined, Undefined>>
                        ELSE <<LeastOf(Streams(sc.data)), GreatestOf(Streams(sc.data))>>
        /\ sc.yDomain = IF Numbers(Reach(sc.data)) = {}
                        THEN <<0, Undefined>>
                        ELSE <<0, GreatestOf(Reach(sc.data))>>

\* C19 witness: two tracks with the reach 1000 and 2000
C19_Witness ==
  \E b \in DOMAIN charts :
    LET sc == charts[b].scatter
    IN  /\ Len(sc.data) = 2
        /\ sc.data[1].reach = 2000 /\ sc.data[2].reach = 1000
        /\ sc.data[1].streams = 1000 /\ sc.data[2].streams = 2000
        /\ sc.xDomain = <<1000, 2000>>
        /\ sc.yDomain = <<0, 2000>>

\* C20: the scatter plot has exactly one circle per track, at
\* (x(streams), y(reach)) of its track, and the tooltip of a hovered circle
\* has the track and the artist of the record of that circle.
C20_OneCirclePerTrack ==
  \A b \in DOMAIN charts :
    LET sc == charts[b].scatter
    IN  /\ OneMarkPerRecord(sc.circles, [i \in DOMAIN sc.data |-> i])
        /\ \A i \in DOMAIN sc.circles :
             /\ sc.circles[i].cx
                  = LinearScale(sc.xDomain, ScatterRangeX, sc.data[sc.circles[i].datum].streams)
             /\ sc.circles[i].cy
                  = LinearScale(sc.yDomain, ScatterRangeY, sc.data[sc.circles[i].datum].reach)
        /\ (pointer.card = "scatterPlot" /\ pointer.chart = b) =>
             LET html == dom.tooltips[TooltipOf(dom, b, "scatterPlot")].html
                 d == sc.data[sc.circles[pointer.mark].datum]
             IN  html.track = d.track /\ html.artist = d.artist

\* C20 witness: the second of two circles is hovered after the first; the
\* tooltip is shown with its track and artist
C20_Witness ==
  \E b \in DOMAIN charts :
    LET sc == charts[b].scatter
    IN  /\ pointer = [card |-> "scatterPlot", chart |-> b, mark |-> 2]
        /\ sc.circles[1].opacity = 100
        /\ sc.circles[1].cx = 150 /\ sc.circles[1].cy = 190
        /\ sc.circles[2].cx = 770 /\ sc.circles[2].cy = 20
        /\ dom.tooltips[TooltipOf(dom, b, "scatterPlot")].opacity = 90
        /\ dom.tooltips[TooltipOf(dom, b, "scatterPlot")].html.track = "B"
        /\ dom.tooltips[TooltipOf(dom, b, "scatterPlot")].html.artist = "Y"

\* C21: a step changes a track record only when it is a call of update()
\* (the count of the updates grows by one), and then every field that was
\* a number (so >= 0) is multiplied by a factor in [0.95, 1.05] and is
\* >= 0 again; track and artist never change.  The new values are in
\* fortieths of the unit of the old ones.
C21_OnlyJitterChangesTracks ==
  [][\A b \in DOMAIN charts :
       LET old == charts[b].scatter
           new == charts'[b].scatter
           Kept(v, w) == w = v
           Jittered(v, w) ==
             IsNumber(v) => /\ w >= 0
                            /\ 38 * v <= w
                            /\ w <= 42 * v
       IN  /\ DOMAIN new.data = DOMAIN old.data
           /\ new.updates \in {old.updates, old.updates + 1}
           /\ \A i \in DOMAIN old.data :
                /\ new.data[i].track = old.data[i].track
                /\ new.data[i].artist = old.data[i].artist
                /\ IF new.updates = old.updates
                   THEN /\ Kept(old.data[i].streams, new.data[i].streams)
                        /\ Kept(old.data[i].reach, new.data[i].reach)
                   ELSE /\ Jittered(old.data[i].streams, new.data[i].streams)
                        /\ Jittered(old.data[i].reach, new.data[i].reach)]_vars

\* C21 witness: one update has multiplied the streams of the first record
\* (1000) by 0.95 and its reach (2000) by 1.025
C21_Witness ==
  \E b \in DOMAIN charts :
    /\ charts[b].scatter.updates = 1
    /\ charts[b].scatter.data[1].streams = 38000
    /\ charts[b].scatter.data[1].reach = 82000

\* C22: no step changes the domains of x and y, the axes or the gridlines
\* of the scatter plot, which stay those of the construction; a call of
\* update() leaves the zoom transform and the transition of the reset
\* alone and, of the circles, the fill and the opacity they show; it puts
\* cx and cy on the way to the positions of the new values under the
\* scales of the construction.
C22_UpdateMovesOnlyCircles ==
  [][\A b \in DOMAIN charts :
       LET old == charts[b].scatter
           new == charts'[b].scatter
           unit == JitterUnit(new.updates)
       IN  /\ new.xDomain = old.xDomain
           /\ new.yDomain = old.yDomain
           /\ new.xAxis = old.xAxis
           /\ new.yAxis = old.yAxis
           /\ new.grid = old.grid
           /\ new.updates # old.updates =>
                /\ new.zoom = old.zoom
                /\ new.gTransform = old.gTransform
                /\ new.reset = old.reset
                /\ DOMAIN new.circles = DOMAIN old.circles
                /\ \A i \in DOMAIN old.circles :
                     /\ new.circles[i].datum = old.circles[i].datum
                     /\ Shown(new.circles[i], "fill") = Shown(old.circles[i], "fill")
                     /\ Shown(new.circles[i], "opacity")
                          = Shown(old.circles[i], "opacity")
                     /\ new.circles[i].styleOpacity = old.circles[i].styleOpacity
                     /\ new.circles[i].cx =
                          LinearScale(InUnit(old.xDomain, unit), ScatterRangeX,
                                      new.data[i].streams)
                     /\ new.circles[i].cy =
                          LinearScale(InUnit(old.yDomain, unit), ScatterRangeY,
                                      new.data[i].reach)]_vars

\* C22 witness: after a wheel step the update has moved the first circle
\* above the top of the range of y (20), the domain being the one of the
\* construction
C22_Witness ==
  \E b \in DOMAIN charts :
    /\ charts[b].scatter.updates = 1
    /\ charts[b].scatter.zoom.k = 16
    /\ charts[b].scatter.yDomain = <<0, 2000>>
    /\ charts[b].scatter.data[1].reach = 82000
    /\ charts[b].scatter.circles[1].cy = 11

\* C23: when the three responses are OK and carry rows, whatever fields of
\* the track rows are no numbers, the load ends without an error: the
\* handle is returned, the three charts are built once, and the scatter
\* plot has one circle per record; the circle of a record whose streams
\* (reach) is NaN has no cx (cy) attribute, so that it lies at 0, and every
\* other coordinate is a number.
C23_NaNRecordsAreDrawn ==
  \A l \in DOMAIN loads :
    loads[l].pc = "done" =>
      /\ errorLog = <<>>
      /\ unhandled = 0
      /\ initPromise = "handle"
      /\ loads[l].created = Cards
      /\ Len(charts) = 1
      /\ \A c \in Cards : Len(dom.svgs[c]) = 1
      /\ LET sc == charts[1].scatter
         IN  /\ DOMAIN sc.circles = DOMAIN sc.data
             /\ \A i \in DOMAIN sc.circles :
                  /\ sc.circles[i].datum = i
                  /\ IF IsNumber(sc.data[i].streams)
                     THEN sc.circles[i].cx \in ScatterRangeX[1]..ScatterRangeX[2]
                     ELSE sc.circles[i].cx = Undefined
                  /\ IF IsNumber(sc.data[i].reach)
                     THEN sc.circles[i].cy \in ScatterRangeY[2]..ScatterRangeY[1]
                     ELSE sc.circles[i].cy = Undefined

\* C23 witness: the load has ended with two circles, the first of a record
\* without a number in either field, the second of a record with numbers
C23_Witness ==
  /\ Len(loads) = 1 /\ loads[1].pc = "done"
  /\ Len(charts) = 1
  /\ LET sc == charts[1].scatter
     IN  /\ Len(sc.circles) = 2
         /\ sc.data[1].streams = NaN /\ sc.data[1].reach = NaN
         /\ sc.data[2].streams = 1000 /\ sc.data[2].reach = 2000
         /\ sc.circles[1].cx = Undefined /\ sc.circles[1].cy = Undefined

\* data is ordered by streams: non-decreasing when asc, non-increasing
\* otherwise
OrderedBy(asc, data) ==
  \A i, j \in DOMAIN data :
    i < j => IF asc THEN data[i].streams <= data[j].streams
             ELSE data[i].streams >= data[j].streams

\* C24: the direction is ascending at construction and, as long as the
\* clicks are counted, ascending after an even number of clicks and
\* descending after an odd number; once Sort has been clicked the array is
\* ordered by streams in the direction held; and every click flips the
\* direction, keeps the records, and keeps the records of equal streams in
\* the order they had before the click.
C24_DirectionFlipsSortStable ==
  /\ [](\A b \in DOMAIN charts :
          LET bar == charts[b].bar
          IN  /\ bar.sortClicks < MaxClicks =>
                   bar.sortedAscending = (bar.sortClicks % 2 = 0)
              /\ bar.sortClicks >= 1 => OrderedBy(bar.sortedAscending, bar.data))
  /\ [][\A b \in DOMAIN charts :
          LET old == charts[b].bar
              new == charts'[b].bar
          IN  new # old =>
                /\ new.sortedAscending = ~old.sortedAscending
                /\ Len(new.data) = Len(old.data)
                /\ Range(new.data) = Range(old.data)
                /\ \A i, j \in DOMAIN old.data :
                     i < j /\ old.data[i].streams = old.data[j].streams =>
                       Band(Artists(new.data), old.data[i].artist)
                         < Band(Artists(new.data), old.data[j].artist)]_vars

\* C24 witness: after the second click the direction is ascending again and
\* two records of equal streams stand before a greater one
C24_Witness ==
  \E b \in DOMAIN charts :
    LET bar == charts[b].bar
    IN  /\ bar.sortClicks = 2
        /\ bar.sortedAscending
        /\ Len(bar.data) = 3
        /\ bar.data[1].streams = bar.data[2].streams
        /\ bar.data[2].streams < bar.data[3].streams
        /\ bar.initialData[1].streams > bar.initialData[2].streams

\* the labels of the bar chart that carry the text of artist a
LabelsOf(bar, a) == {j \in DOMAIN bar.labels : bar.labels[j].datum = a}

\* C25 (the claim as stated): after any number of clicks on Sort every
\* artist has exactly one label, the label is at the band of the artist,
\* where the bar is, and the label of the bar under the pointer, and no
\* other, is shown.
C25_OneLabelAtItsBar ==
  \A b \in DOMAIN charts :
    LET bar == charts[b].bar
    IN  \A i \in DOMAIN bar.rects :
          LET a == bar.rects[i].datum
          IN  /\ Cardinality(LabelsOf(bar, a)) = 1
              /\ \A j \in LabelsOf(bar, a) :
                   /\ bar.labels[j].y = Band(bar.yDomain, a)
                   /\ bar.labels[j].y = bar.rects[i].y
                   /\ bar.labels[j].opacity =
                        IF pointer = [card |-> "topArtists", chart |-> b, mark |-> i]
                        THEN 100 ELSE 0

\* mark m is drawn with the fill and the opacity of mark n
SameLook(m, n) == Shown(m, "fill") = Shown(n, "fill") /\ Opacity(m) = Opacity(n)

\* C26: when the pointer is over no mark and no transition runs, every
\* mark of the three charts is drawn with the fill and the opacity of its
\* construction, which it had before the pointer entered, and no tooltip
\* and no label of a bar is visible.
C26_HoverRoundTrip ==
  (pointer = NoPointer /\ ~TransitionsRun) =>
    /\ \A i \in DOMAIN dom.tooltips : dom.tooltips[i].opacity = 0
    /\ \A b \in DOMAIN charts :
         LET c == charts[b]
         IN  /\ \A i \in DOMAIN c.scatter.circles :
                  SameLook(c.scatter.circles[i],
                           NewScatterPlot(c.scatter.data).circles[i])
             /\ \A i \in DOMAIN c.bar.rects :
                  SameLook(c.bar.rects[i], NewBarChart(c.bar.data).rects[i])
             /\ \A i \in DOMAIN c.bar.labels : c.bar.labels[i].opacity = 0
             /\ \A i \in DOMAIN c.platform.rects :
                  SameLook(c.platform.rects[i],
                           NewPlatformComparison(c.platform.data).rects[i])

\* C26 witness: the pointer has been over a circle and over a bar of each
\* of the two bar charts and has left them, and the transitions have ended
C26_Witness ==
  /\ pointer = NoPointer /\ ~TransitionsRun
  /\ charts[1].scatter.circles[1].opacity = 100
  /\ charts[1].bar.rects[1].strokeWidth = 0
  /\ charts[1].platform.rects[1].opacity = 100

\* C28 (the claim as stated): once no transition runs any more, every bar
\* of the bar chart is at the band of its artist, every bar of the
\* comparison chart has the y and the height of the metric on display, and
\* every circle is at the position of its record, whatever hover events
\* and clicks have come while the marks were moving.
C28_MarksEndAtTargets ==
  ~TransitionsRun =>
    \A b \in DOMAIN charts :
      LET bar == charts[b].bar
          pl == charts[b].platform
          sc == charts[b].scatter
          unit == JitterUnit(sc.updates)
      IN  /\ \A i \in DOMAIN bar.rects :
               bar.rects[i].y = Band(bar.yDomain, bar.rects[i].datum)
          /\ \A i \in DOMAIN pl.rects :
               LET geometry == BarGeometry(PlatformDomainY(pl.data, pl.shown),
                                           Metric(pl.data[pl.rects[i].datum], pl.shown))
               IN  /\ pl.rects[i].y = geometry.y
                   /\ pl.rects[i].height = geometry.height
          /\ \A i \in DOMAIN sc.circles :
               LET centre == CircleCentre(InUnit(sc.xDomain, unit),
                                          InUnit(sc.yDomain, unit),
                                          sc.data[sc.circles[i].datum])
               IN  /\ sc.circles[i].cx = centre.cx
                   /\ sc.circles[i].cy = centre.cy


\* C29 (the claim as stated): when the pointer comes over a bar of the
\* comparison chart, the number written into the tooltip is the platform's
\* value of the metric on display, the one of the last call of updateChart,
\* which gives the bar its height.
C29_TooltipShowsDisplayedMetric ==
  [][\A b \in DOMAIN charts : \A i \in DOMAIN charts[b].platform.rects :
       (/\ pointer = NoPointer
        /\ pointer' = [card |-> "platformComparison", chart |-> b, mark |-> i])
       => LET pl == charts[b].platform
              d == pl.data[pl.rects[i].datum]
          IN  dom'.tooltips[TooltipOf(dom, b, "platformComparison")].html
                = PlatformHtml(d, pl.shown)]_vars


\* C30 (the claim as stated): the promise that refresh() returned is
\* resolved only when the load of that refresh has ended: none of its
\* fetches is pending and its reading of the bodies and building of the
\* charts has either run or been given up.
C30_RefreshResolvesAfterLoad ==
  \A l \in DOMAIN loads :
    (loads[l].kind = "refresh" /\ loads[l].refreshPromise = "resolved")
      => /\ loads[l].pc = "done"
         /\ \A e \in Endpoints : loads[l].fetch[e] # "pending"


\* C27: every button of the controls carries the click handler of a chart
\* whose marks exist (one circle or bar for every record of its data, and
\* the labels of the bars), and as long as no create function has run the
\* controls hold no button, so that no click can change anything: until the
\* first build the charts change only by a load that builds all three.
C27_HandlersOnlyOnBuiltCharts ==
  /\ [](/\ \A c \in Cards : \A i \in DOMAIN dom.controls[c] :
             LET b == dom.controls[c][i].chart
             IN  /\ b \in DOMAIN charts
                 /\ b \in Range(dom.svgs[c])
                 /\ Len(charts[b].scatter.circles) = Len(charts[b].scatter.data)
                 /\ Len(charts[b].bar.rects) = Len(charts[b].bar.data)
                 /\ Len(charts[b].bar.labels) >= Len(charts[b].bar.data)
                 /\ Len(charts[b].platform.rects) = Len(charts[b].platform.data)
        /\ (\A l \in DOMAIN loads : loads[l].created = {})
             => \A c \in Cards : dom.controls[c] = <<>>)
  /\ [][charts = <<>>
          => \/ charts' = <<>>
             \/ \E l \in DOMAIN loads :
                  /\ loads[l].pc = "reading"
                  /\ loads'[l].created = Cards
                  /\ Len(charts') = 1]_vars

\* C27 witness: a click on Sort has acted on the chart of the first build
\* while the fetches of a refresh are pending
C27_Witness ==
  /\ Len(loads) = 2
  /\ loads[2].pc = "fetching"
  /\ Len(charts) = 1
  /\ charts[1].bar.sortClicks > 0
  /\ Len(dom.controls["topArtists"]) = 1

=============================================================================
